---------------------------- MODULE Spec2Model ----------------------------
(***************************************************************************)
(* Device-bound authorization agent (hh15196078708/aits, client side).     *)
(*                                                                         *)
(* The repository holds two independently evolved implementations of the   *)
(* authorization logic:                                                    *)
(*   - traffic_client/core/authorize.py   (AuthManager with AuthStatus:    *)
(*     login, check_hardware_integrity, send_heartbeat, retry job)         *)
(*   - tools/client/{auth_manager,main,network_client,config_manager}.py   *)
(*     (AuthManager with status cache, offline grace timer, startup check, *)
(*     heartbeat loop of ClientApplication)                                *)
(* A behaviour of this model runs one of the two; the variable impl says   *)
(* which.  The variables of the other implementation stay at their         *)
(* initial values.                                                         *)
(***************************************************************************)
EXTENDS Integers, FiniteSets, Sequences, TLC

VARIABLES
    impl,             \* which implementation this behaviour runs
    last,             \* history: the step taken last and what it was given
    \* ---- traffic_client/core/authorize.py : AuthManager ----
    status,           \* self.status (AuthStatus value)
    client_id,        \* self.client_id
    hw,               \* the host's current hardware (what HardwareCollector sees)
    device_code_file, \* content of data/device_code.dat (0 = no file / empty)
    auth_file,        \* data/auth.dat: whether it exists, what was saved, how
                      \* much of the blob is there and the damage done to it
    sched_pc,         \* position of the scheduler thread (run_loop)
    main_pc,          \* position of the thread that calls login()
    login_code,       \* device_code local of the login() call in flight
    authorized_by,    \* history: what made the most recent assignment of AUTHORIZED
    mismatch,         \* history: a mismatch was applied and no login succeeded since
    denied,           \* history: the server instructed expired/revoked and no
                      \* login succeeded since
    \* ---- tools/client : AuthManager, ClientApplication, ConfigManager ----
    now,              \* get_timestamp(), in ticks
    config,           \* config file: which registration fields it holds
    config_auth_cache, \* config["auth_cache"], persisted
    auth_cache,       \* AuthManager._auth_cache (CachedValue: _value, _expire_time)
    offline_start_time, \* AuthManager._offline_start_time (-1 = None)
    shutdown_event,   \* AuthManager._shutdown_event
    stop_event,       \* ClientApplication._stop_event
    app_pc,           \* position of the main thread in ClientApplication.run
    hb_pc,            \* position of the heartbeat thread in _heartbeat_loop
    startup_allowed,  \* result of _check_startup_auth in this process
    grace,            \* result of the last check_offline_grace()
    net_calls,        \* requests issued by this process (saturating)
    \* ---- the library functions called on their own ----
    call,             \* the library call made last: function, arguments, result
    host,             \* what the host's hardware sources give (fixed)
    uuid_node,        \* uuid._node, the value uuid.getnode() keeps in this
                      \* process (0 = not computed yet)
    machine_id_file,  \* the persisted machine id of tools/client (0 = no file)
    retry,            \* NetworkClient._request_with_retry: the call in progress
    singleton,        \* traffic_client AuthManager constructed from several
                      \* threads: the class attributes, the instance, where
                      \* each thread is
    engine            \* traffic_client Engine: its fields, the jobs of the
                      \* schedule module, the scheduler threads

t_vars == <<status, client_id, hw, device_code_file, auth_file, sched_pc,
            main_pc, login_code, authorized_by, mismatch, denied>>

c_vars == <<now, config, config_auth_cache, auth_cache,
            offline_start_time, shutdown_event, stop_event, app_pc, hb_pc,
            startup_allowed, grace, net_calls>>

n_vars == <<retry, singleton, engine>>

l_vars == <<call, host, uuid_node, machine_id_file, n_vars>>

-----------------------------------------------------------------------------
(* Bounds of the model *)

\* the clock stops at MaxTime ticks
MaxTime == 5

\* the count of requests saturates at MaxCalls
MaxCalls == 2

\* constants.py is not among the sources.  auth_manager.py documents the cache
\* validity as 5 minutes and the offline grace period as 10 minutes; the model
\* counts time in ticks and scales both.
AUTH_CACHE_TTL == 2
OFFLINE_GRACE_PERIOD == 3

\* number of distinct hardware configurations the host can present
MaxHw == 2

\* number of 16-byte blocks of the blob in data/auth.dat, the IV included
BlobBlocks == 3

\* number of threads that construct AuthManager at the same time
MaxThreads == 2

\* number of scheduler threads of Engine followed at the same time, and the
\* number of jobs the schedule module can hold
MaxEngineThreads == 2
MaxJobs == 2

\* constants.py is not among the sources.  The class docstring of
\* NetworkClient documents "at most 3 times" for the retries.
MAX_RETRY == 3

-----------------------------------------------------------------------------
(* Values *)

None == "None"

\* AuthStatus, authorize.py
UNAUTHORIZED == "unauthorized"
AUTHORIZED == "authorized"
EXPIRED == "expired"
REVOKED == "revoked"
EXCEPTION == "exception"

AuthStatus == {UNAUTHORIZED, AUTHORIZED, EXPIRED, REVOKED, EXCEPTION}

ClientIds == {"CLI-1"}

Hardware == 1..MaxHw

\* CryptoManager.generate_md5: a digest of the text, "" (0) for an empty text.
\* Texts and digests are numbers; the digest is injective on the texts used.
generate_md5(text) == IF text = 0 THEN 0 ELSE (text * 7 + 3) % 37

\* AuthManager._generate_device_code: the features of the host joined with "|"
\* (the raw string, here the configuration number) and digested.
generate_device_code(h) == generate_md5(h)

DeviceCodes == {generate_device_code(h) : h \in Hardware}

\* The issuer's scheme (AES-128-ECB under the fixed key, hex encoded): no
\* per-message randomness, so a code has exactly one secret.
IssuerSecret(code) == 100 + code

\* a secret that is not valid hex / does not unpad
BadSecret == 99
\* no secret in the response (data.get("signature") is None)
NoSecret == 0

Secrets == {IssuerSecret(c) : c \in DeviceCodes} \cup {BadSecret, NoSecret}

\* LicenseManager._decrypt_aes_ecb_hex: the plaintext, or -1 when it raises
decrypt_aes_ecb_hex(secret) == IF secret > 100 THEN secret - 100 ELSE -1

\* LicenseManager.verify_license
verify_license(secret, machine_code) ==
    IF secret = NoSecret \/ machine_code = 0 THEN FALSE
    ELSE LET decrypted == decrypt_aes_ecb_hex(secret)
         IN  decrypted # -1 /\ decrypted = machine_code

\* what _load_auth_info returns: None, or the record login() saved
NoAuthInfo == [present |-> FALSE, client_id |-> None, signature |-> NoSecret,
               bind_device_code |-> 0]

AuthInfo(cid, sig, code) ==
    [present |-> TRUE, client_id |-> cid, signature |-> sig,
     bind_device_code |-> code]

\* Texts: "" (what encrypt_aes256 / decrypt_aes256 return when they fail or
\* are given nothing), the output of json.dumps for a record, or a text that
\* is not JSON.
EmptyText == [kind |-> "empty", obj |-> NoAuthInfo]

OtherText == [kind |-> "other", obj |-> NoAuthInfo]

\* json.dumps(info)
json_dumps(info) == [kind |-> "json", obj |-> info]

\* data/auth.dat does not exist
NoFile == [exists |-> FALSE, text |-> EmptyText, written |-> 0, damage |-> "none"]

\* CryptoManager.encrypt_aes256: base64(iv + AES-256-CBC(PKCS7(plaintext))),
\* "" for an empty plaintext.  A blob is described by the text inside it, the
\* number of its blocks that are in the file, and the damage done to it.
encrypt_aes256(plaintext) ==
    IF plaintext.kind = "empty"
    THEN [exists |-> TRUE, text |-> EmptyText, written |-> 0, damage |-> "none"]
    ELSE [exists |-> TRUE, text |-> plaintext, written |-> BlobBlocks,
          damage |-> "none"]

\* the first 16 bytes of the JSON text are {"client_id": " and the first
\* character of the client id; CBC xors the IV into that block, so a bit
\* flipped in the last byte of the IV flips the same bit of that character
\* ('C' becomes 'B') and changes nothing else
FlippedId(cid) == "BLI-1"

\* damage done to a complete blob: a byte flipped in a ciphertext block (the
\* block decrypts to noise), a bit flipped in the IV under a character of the
\* JSON syntax, a bit flipped in the IV under the first character of a
\* client id that is a string
Damages(content) ==
    {"ciphertext_flip", "iv_flip_syntax"}
    \cup (IF content.text.kind = "json" /\ content.text.obj.client_id # None
          THEN {"iv_flip_value"} ELSE {})

decrypt_aes256_NoUnpad(content) ==
    IF content.written = 0 THEN EmptyText
    ELSE IF content.damage = "none" THEN content.text
    ELSE EmptyText

\* CryptoManager.decrypt_aes256 of the content of a file: the plaintext, ""
\* when the content is empty or anything raises
decrypt_aes256(content) ==
    IF content.written = 0 THEN EmptyText
    \* blocks are missing: base64 or the block length is wrong, or the
    \* unpadder reads the last byte of a block of JSON text (>= 0x20) as the
    \* pad length and raises
    ELSE IF content.written < BlobBlocks THEN EmptyText
    ELSE IF content.damage = "none" THEN content.text
    \* noise fails the padding check or decode('utf-8')
    ELSE IF content.damage = "ciphertext_flip" THEN EmptyText
    ELSE IF content.damage = "iv_flip_syntax" THEN OtherText
    ELSE [kind |-> "json",
          obj |-> [content.text.obj EXCEPT !.client_id = FlippedId(@)]]

SaveAuthInfo_NoBind(info) ==
    encrypt_aes256(json_dumps([info EXCEPT !.bind_device_code = 0]))

\* AuthManager._save_auth_info: the file after a complete write
SaveAuthInfo(info) == encrypt_aes256(json_dumps(info))

\* AuthManager._load_auth_info: no file -> None; decrypt; json.loads of a
\* non-empty text, None when it raises
LoadAuthInfo(file) ==
    IF ~file.exists THEN NoAuthInfo
    ELSE LET decrypted == decrypt_aes256(file) IN
         IF decrypted.kind = "empty" THEN NoAuthInfo
         ELSE IF decrypted.kind = "json" THEN decrypted.obj
         ELSE NoAuthInfo

\* Responses of SecureHttpClient.post: None (request failed / not JSON), or a
\* JSON object with a code and data.
NoResp == [ok |-> FALSE, code |-> 0, client_id |-> None, signature |-> NoSecret,
           status |-> None]

\* "data": null in a response (the key is there, its value is JSON null)
NullData == "null"

LoginResponses ==
    {NoResp}
    \cup {[ok |-> TRUE, code |-> 401, client_id |-> None, signature |-> NoSecret,
           status |-> None]}
    \cup {[ok |-> TRUE, code |-> 200, client_id |-> c, signature |-> s,
           status |-> None] : c \in ClientIds \cup {None}, s \in Secrets}

HeartbeatResponses ==
    {NoResp}
    \cup {[ok |-> TRUE, code |-> c, client_id |-> None, signature |-> NoSecret,
           status |-> s] : c \in {200, 500}, s \in {None, "normal", "revoked", "expired"}}
    \cup {[ok |-> TRUE, code |-> 200, client_id |-> None, signature |-> NoSecret,
           status |-> NullData]}

\* history record of the last step: what it was, the response it was given,
\* and for login() the status before it, the device code it sent, the client
\* id in the response and the value it returned
\* no request body (the step sent no exception report)
NoReport == [client_id |-> None, reason |-> None, device_code |-> 0]

Last(op, resp, verified) ==
    [op |-> op, ok |-> resp.ok, code |-> resp.code, instr |-> resp.status,
     verified |-> verified, prior |-> None, sent |-> 0, cid |-> None,
     ret |-> FALSE, report |-> NoReport]

\* authorization status strings of tools/client (normal/expired)
AUTH_STATUS_NORMAL == "normal"
AUTH_STATUS_EXPIRED == "expired"

\* AuthState, auth_manager.py
STATE_VALID == "valid"
STATE_EXPIRED == "expired"
STATE_UNKNOWN == "unknown"

\* the registration fields of the config file: whether client_id, auth_key,
\* expire_time and machine_code are stored in it
NoConfig == [client_id |-> FALSE, auth_key |-> FALSE, expire_time |-> FALSE,
             machine_code |-> FALSE]

RegisteredConfig == [client_id |-> TRUE, auth_key |-> TRUE, expire_time |-> TRUE,
                     machine_code |-> TRUE]

\* config["auth_cache"]: absent or {status, update_time}
NoConfigCache == [present |-> FALSE, status |-> None, update_time |-> 0]

ConfigCache(st, t) == [present |-> TRUE, status |-> st, update_time |-> t]

\* what NetworkClient._request_with_retry hands to NetworkClient.heartbeat:
\* no response (every attempt failed), or the parsed JSON: its code (200, a
\* rejection such as 403, a server error such as 500), whether its data is an
\* object, and the authStatus and safeStatus in it
ServerHeartbeats ==
    {[ok |-> FALSE, code |-> 0, wellformed |-> FALSE, authStatus |-> None,
      safeStatus |-> None]}
    \cup {[ok |-> TRUE, code |-> c, wellformed |-> w, authStatus |-> a,
           safeStatus |-> f] :
             c \in {200, 403, 500}, w \in BOOLEAN,
             a \in {None, AUTH_STATUS_NORMAL, AUTH_STATUS_EXPIRED},
             f \in {None, "ON", "OFF"}}

\* get_registration result of NetworkClient.register, as _do_register reads it
RegisterResults ==
    {[success |-> FALSE, has_client_id |-> FALSE, has_auth_key |-> FALSE]}
    \cup {[success |-> TRUE, has_client_id |-> c, has_auth_key |-> k] :
             c \in BOOLEAN, k \in BOOLEAN}

-----------------------------------------------------------------------------
(* traffic_client/core/authorize.py *)

LoginStatus_FailureExpires(resp) ==
    IF resp.ok /\ resp.code = 200 THEN AUTHORIZED ELSE EXPIRED

LoginStatus_AlwaysAuthorized(resp) == AUTHORIZED

\* login(): status after the response
LoginStatus(resp) ==
    IF resp.ok /\ resp.code = 200 THEN AUTHORIZED ELSE UNAUTHORIZED

\* login(): the value returned
LoginReturn(resp) == resp.ok /\ resp.code = 200

\* login(), up to the request: collect, save the device code, post
LoginSend ==
    /\ impl = "traffic_client"
    /\ main_pc = "idle"
    /\ device_code_file' = generate_device_code(hw)
    /\ login_code' = generate_device_code(hw)
    /\ main_pc' = "login_wait"
    /\ last' = Last("login_send", NoResp, FALSE)
    /\ UNCHANGED <<c_vars, l_vars, impl, status, client_id, hw, auth_file, sched_pc,
                   authorized_by, mismatch, denied>>

\* login(), from the response on
LoginRecv(resp) ==
    /\ impl = "traffic_client"
    /\ main_pc = "login_wait"
    /\ IF resp.ok /\ resp.code = 200
       THEN /\ client_id' = resp.client_id
            /\ auth_file' = SaveAuthInfo(AuthInfo(resp.client_id, resp.signature,
                                                  login_code))
            /\ authorized_by' = IF verify_license(resp.signature, login_code)
                                THEN "login_verified" ELSE "login_unverified"
            /\ mismatch' = FALSE
            /\ denied' = FALSE
       ELSE UNCHANGED <<client_id, auth_file, authorized_by, mismatch, denied>>
    /\ status' = LoginStatus(resp)
    /\ main_pc' = "idle"
    /\ login_code' = 0
    /\ last' = [Last("login", resp, verify_license(resp.signature, login_code))
                  EXCEPT !.prior = status, !.sent = login_code,
                         !.cid = resp.client_id, !.ret = LoginReturn(resp)]
    /\ UNCHANGED <<c_vars, l_vars, impl, hw, device_code_file, sched_pc>>

\* check_hardware_integrity(): TRUE when one of its two comparisons differs
HardwareMismatch(current_code, saved_code, auth_info) ==
    \/ current_code # saved_code
    \/ auth_info.present /\ auth_info.bind_device_code # current_code

\* check_hardware_integrity(): the reason it hands to _handle_exception; the
\* comparison with device_code.dat is made first
MismatchReason(current_code, saved_code, auth_info) ==
    IF current_code # saved_code THEN "hardware_mismatch_local"
    ELSE "hardware_mismatch_auth"

ExceptionPayload_NoFingerprint(cid, reason, current_code) ==
    [client_id |-> cid, reason |-> reason, device_code |-> 0]

\* _handle_exception(): the body of the exception report; device_code is
\* collected again for it
ExceptionPayload(cid, reason, current_code) ==
    [client_id |-> cid, reason |-> reason, device_code |-> current_code]

\* the answers to the exception report
ReportResponses ==
    {NoResp}
    \cup {[ok |-> TRUE, code |-> c, client_id |-> None, signature |-> NoSecret,
           status |-> None] : c \in {200, 500}}

\* _handle_exception(): status after the report has returned; the value
\* post() returns is dropped
ReportStatus(st, resp) == st

\* check_hardware_integrity() with _handle_exception() up to its report
CheckHardwareIntegrity ==
    /\ impl = "traffic_client"
    /\ sched_pc = "idle"
    /\ IF status # AUTHORIZED
       THEN /\ last' = Last("integrity_skip", NoResp, FALSE)
            /\ UNCHANGED <<status, sched_pc, mismatch>>
       ELSE IF HardwareMismatch(generate_device_code(hw), device_code_file,
                                LoadAuthInfo(auth_file))
            THEN /\ status' = EXCEPTION
                 /\ sched_pc' = "report_wait"
                 /\ mismatch' = TRUE
                 /\ last' = [Last("integrity_mismatch", NoResp, FALSE)
                               EXCEPT !.prior = status,
                                      !.report = ExceptionPayload(
                                          client_id,
                                          MismatchReason(
                                              generate_device_code(hw),
                                              device_code_file,
                                              LoadAuthInfo(auth_file)),
                                          generate_device_code(hw))]
            ELSE /\ last' = Last("integrity_pass", NoResp, FALSE)
                 /\ UNCHANGED <<status, sched_pc, mismatch>>
    /\ UNCHANGED <<c_vars, l_vars, impl, client_id, hw, device_code_file, auth_file, main_pc,
                   login_code, authorized_by, denied>>

\* _handle_exception(): the exception report returns (its result is ignored)
ReportDone(resp) ==
    /\ impl = "traffic_client"
    /\ sched_pc = "report_wait"
    /\ sched_pc' = "idle"
    /\ status' = ReportStatus(status, resp)
    /\ last' = [Last("report_done", resp, FALSE) EXCEPT !.prior = status]
    /\ UNCHANGED <<c_vars, l_vars, impl, client_id, hw, device_code_file, auth_file,
                   main_pc, login_code, authorized_by, mismatch, denied>>

\* send_heartbeat(), up to the request
HeartbeatSend ==
    /\ impl = "traffic_client"
    /\ sched_pc = "idle"
    /\ IF client_id = None
       THEN IF LoadAuthInfo(auth_file).present
            THEN /\ client_id' = LoadAuthInfo(auth_file).client_id
                 /\ status' = AUTHORIZED
                 /\ authorized_by' = "heartbeat_load"
                 /\ sched_pc' = "hb_wait"
                 /\ last' = Last("heartbeat_load", NoResp, FALSE)
            ELSE /\ last' = Last("heartbeat_skip", NoResp, FALSE)
                 /\ UNCHANGED <<client_id, status, sched_pc, authorized_by>>
       ELSE /\ sched_pc' = "hb_wait"
            /\ last' = Last("heartbeat_send", NoResp, FALSE)
            /\ UNCHANGED <<client_id, status, authorized_by>>
    /\ UNCHANGED <<c_vars, l_vars, impl, hw, device_code_file, auth_file, main_pc, login_code,
                   mismatch, denied>>

HeartbeatStatus_FailureExpires(st, resp) ==
    IF resp.ok /\ resp.code = 200
    THEN IF resp.status = "revoked" THEN REVOKED
         ELSE IF resp.status = "expired" THEN EXPIRED
         ELSE st
    ELSE EXPIRED

\* send_heartbeat(): status after the response
HeartbeatStatus(st, resp) ==
    IF resp.ok /\ resp.code = 200
    THEN IF resp.status = "revoked" THEN REVOKED
         ELSE IF resp.status = "expired" THEN EXPIRED
         ELSE st
    ELSE st

\* send_heartbeat(): resp.get("data", {}).get("status") raises AttributeError
\* when the response has code 200 and "data" is null (the default {} is used
\* only when the key is absent)
HeartbeatRaises(resp) == resp.ok /\ resp.code = 200 /\ resp.status = NullData

\* send_heartbeat(), from the response on.  An exception raised by the job
\* leaves schedule.run_pending() and run_loop, which catch nothing: the
\* scheduler thread ends.
HeartbeatRecv(resp) ==
    /\ impl = "traffic_client"
    /\ sched_pc = "hb_wait"
    /\ status' = HeartbeatStatus(status, resp)
    /\ denied' = (denied \/ (resp.ok /\ resp.code = 200
                               /\ resp.status \in {"revoked", "expired"}))
    /\ IF HeartbeatRaises(resp)
       THEN /\ sched_pc' = "dead"
            /\ last' = Last("heartbeat_fault", resp, FALSE)
       ELSE /\ sched_pc' = "idle"
            /\ last' = Last("heartbeat", resp, FALSE)
    /\ UNCHANGED <<c_vars, l_vars, impl, client_id, hw, device_code_file, auth_file, main_pc,
                   login_code, authorized_by, mismatch>>

is_authorized_UnlessDenied(st) == st \notin {EXPIRED, REVOKED}

\* is_authorized()
is_authorized(st) == st = AUTHORIZED

\* the interceptor of a core function asks is_authorized(): it reads
\* self.status and returns, whatever the scheduler thread is doing
IsAuthorizedCall ==
    /\ impl = "traffic_client"
    /\ last' = [Last("is_authorized", NoResp, FALSE)
                    EXCEPT !.prior = status, !.ret = is_authorized(status)]
    /\ UNCHANGED <<c_vars, l_vars, impl, status, client_id, hw, device_code_file,
                   auth_file, sched_pc, main_pc, login_code, authorized_by,
                   mismatch, denied>>

RetryStatus_Recovers(st) ==
    IF st \in {EXPIRED, REVOKED, EXCEPTION} THEN AUTHORIZED ELSE st

\* _retry_auth_if_needed(): status after the job.  In EXPIRED, REVOKED and
\* EXCEPTION it prints and passes; in the other statuses it does nothing.
RetryStatus(st) ==
    IF st \in {EXPIRED, REVOKED, EXCEPTION} THEN st ELSE st

\* _retry_auth_if_needed()
RetryAuthIfNeeded ==
    /\ impl = "traffic_client"
    /\ sched_pc = "idle"
    /\ status' = RetryStatus(status)
    /\ last' = [Last("retry", NoResp, FALSE) EXCEPT !.prior = status]
    /\ UNCHANGED <<c_vars, l_vars, impl, client_id, hw, device_code_file, auth_file,
                   sched_pc, main_pc, login_code, authorized_by, mismatch, denied>>

\* the process stops inside _save_auth_info of a successful login():
\* open(path, 'w') has emptied the file and fewer than all blocks of the blob
\* have reached it; then the process is started again
LoginSaveCrash(resp, k) ==
    /\ impl = "traffic_client"
    /\ main_pc = "login_wait"
    /\ resp.ok /\ resp.code = 200
    /\ auth_file' = [SaveAuthInfo(AuthInfo(resp.client_id, resp.signature,
                                           login_code))
                       EXCEPT !.written = k]
    /\ status' = UNAUTHORIZED
    /\ client_id' = None
    /\ sched_pc' = "idle"
    /\ main_pc' = "idle"
    /\ login_code' = 0
    /\ authorized_by' = "none"
    /\ mismatch' = FALSE
    /\ last' = Last("save_crash", resp, FALSE)
    /\ UNCHANGED <<c_vars, l_vars, impl, hw, device_code_file, denied>>

\* data/auth.dat is damaged on disk: cut short ("cut", with the blocks that
\* are left), or bytes of it flipped
DamageAuthFile ==
    /\ impl = "traffic_client"
    /\ auth_file.exists
    /\ auth_file.written = BlobBlocks
    /\ auth_file.damage = "none"
    /\ \/ \E k \in 0..(BlobBlocks - 1) :
             auth_file' = [auth_file EXCEPT !.written = k, !.damage = "cut"]
       \/ \E d \in Damages(auth_file) :
             auth_file' = [auth_file EXCEPT !.damage = d]
    /\ last' = Last("damage", NoResp, FALSE)
    /\ UNCHANGED <<c_vars, l_vars, impl, status, client_id, hw, device_code_file,
                   sched_pc, main_pc, login_code, authorized_by, mismatch, denied>>

\* the host's hardware changes (a MAC changes, a disk is swapped)
HardwareChange ==
    /\ impl = "traffic_client"
    /\ \E h \in Hardware \ {hw} : hw' = h
    /\ last' = Last("hardware_change", NoResp, FALSE)
    /\ UNCHANGED <<c_vars, l_vars, impl, status, client_id, device_code_file, auth_file,
                   sched_pc, main_pc, login_code, authorized_by, mismatch, denied>>

\* the hosting application begins to shut down (SvcStop of the Windows
\* service sets is_alive = False; or the main thread leaves its loop).
\* Nothing of AuthManager is told: run_loop is "while True" in a daemon
\* thread, AuthManager has no stop flag and no stop method, so the scheduler
\* goes on until the process has ended (RestartT).
ShutdownT ==
    /\ impl = "traffic_client"
    /\ main_pc = "idle"
    /\ main_pc' = "stopping"
    /\ last' = Last("shutdown", NoResp, FALSE)
    /\ UNCHANGED <<c_vars, l_vars, impl, status, client_id, hw, device_code_file, auth_file,
                   sched_pc, login_code, authorized_by, mismatch, denied>>

\* the process is restarted: AuthManager.__init__ again, the files stay
RestartT ==
    /\ impl = "traffic_client"
    /\ status' = UNAUTHORIZED
    /\ client_id' = None
    /\ sched_pc' = "idle"
    /\ main_pc' = "idle"
    /\ login_code' = 0
    /\ authorized_by' = "none"
    /\ mismatch' = FALSE
    /\ last' = Last("restart", NoResp, FALSE)
    /\ UNCHANGED <<c_vars, l_vars, impl, hw, device_code_file, auth_file, denied>>

\* AuthManager.__init__ on a host with no data files; hardware is the host's
InitT(hardware) ==
    /\ status = UNAUTHORIZED
    /\ client_id = None
    /\ hw \in hardware
    /\ device_code_file = 0
    /\ auth_file = NoFile
    /\ sched_pc = "idle"
    /\ main_pc = "idle"
    /\ login_code = 0
    /\ authorized_by = "none"
    /\ mismatch = FALSE
    /\ denied = FALSE

\* the files a successful login() can have saved
SavedFiles ==
    {SaveAuthInfo(AuthInfo(c, g, d)) :
        c \in ClientIds \cup {None}, g \in Secrets, d \in DeviceCodes}

\* AuthManager.__init__ on a host where an earlier run may have logged in:
\* data/auth.dat is absent or as login() saved it, and device_code.dat holds
\* the device code saved with it
InitStoreT ==
    /\ status = UNAUTHORIZED
    /\ client_id = None
    /\ hw \in Hardware
    /\ auth_file \in SavedFiles \cup {NoFile}
    /\ device_code_file = LoadAuthInfo(auth_file).bind_device_code
    /\ sched_pc = "idle"
    /\ main_pc = "idle"
    /\ login_code = 0
    /\ authorized_by = "none"
    /\ mismatch = FALSE
    /\ denied = FALSE

\* the agent runs its scheduled jobs (run_loop) with no login, while the
\* file can be damaged, the hardware changed and the process restarted
NextStore ==
    \/ DamageAuthFile
    \/ CheckHardwareIntegrity
    \/ \E resp \in ReportResponses : ReportDone(resp)
    \/ HeartbeatSend
    \/ \E resp \in HeartbeatResponses : HeartbeatRecv(resp)
    \/ RetryAuthIfNeeded
    \/ IsAuthorizedCall
    \/ HardwareChange
    \/ RestartT

\* the steps of traffic_client that read or write self.status or
\* self.client_id outside a lock.  AuthManager._lock is taken in __new__
\* only; login(), check_hardware_integrity(), send_heartbeat() and
\* _retry_auth_if_needed() take no lock.
UnlockedAccessT(op) ==
    op \in {"login", "integrity_skip", "integrity_mismatch", "integrity_pass",
            "heartbeat_load", "heartbeat_skip", "heartbeat_send", "heartbeat",
            "retry"}

NextT ==
    \/ LoginSend
    \/ \E resp \in LoginResponses : LoginRecv(resp)
    \/ \E resp \in LoginResponses, k \in 0..(BlobBlocks - 1) : LoginSaveCrash(resp, k)
    \/ CheckHardwareIntegrity
    \/ \E resp \in ReportResponses : ReportDone(resp)
    \/ HeartbeatSend
    \/ \E resp \in HeartbeatResponses : HeartbeatRecv(resp)
    \/ RetryAuthIfNeeded
    \/ HardwareChange
    \/ ShutdownT
    \/ RestartT

-----------------------------------------------------------------------------
(* tools/client *)

\* CachedValue.get
CachedValue_get(c, t) == IF t < c.expire_time THEN c.value ELSE None

\* CachedValue.set
CachedValue_set(v, t) == [value |-> v, expire_time |-> t + AUTH_CACHE_TTL]

\* CachedValue.__init__
EmptyCachedValue == [value |-> None, expire_time |-> 0]

\* AuthManager._load_auth_info: the status cache after construction
load_auth_info(cfg, t) ==
    IF cfg.present /\ t - cfg.update_time < AUTH_CACHE_TTL
    THEN CachedValue_set(cfg.status, t)
    ELSE EmptyCachedValue

\* AuthManager.get_auth_state
get_auth_state(c, cfg, t) ==
    LET cached_status == CachedValue_get(c, t) IN
    IF cached_status = AUTH_STATUS_EXPIRED THEN STATE_EXPIRED
    ELSE IF cached_status = AUTH_STATUS_NORMAL THEN STATE_VALID
    ELSE IF cfg.present /\ cfg.status = AUTH_STATUS_EXPIRED THEN STATE_EXPIRED
    ELSE STATE_UNKNOWN

\* AuthManager.check_startup_auth: allowed
check_startup_auth(c, cfg, t) == get_auth_state(c, cfg, t) # STATE_EXPIRED

check_offline_grace_Inclusive(start, c, cfg, t) ==
    IF start = -1 THEN [in_grace |-> TRUE, remaining |-> OFFLINE_GRACE_PERIOD]
    ELSE IF get_auth_state(c, cfg, t) = STATE_EXPIRED
         THEN [in_grace |-> FALSE, remaining |-> 0]
         ELSE LET remaining == OFFLINE_GRACE_PERIOD - (t - start) IN
              IF remaining >= 0 THEN [in_grace |-> TRUE, remaining |-> remaining]
              ELSE [in_grace |-> FALSE, remaining |-> 0]

\* AuthManager.check_offline_grace
check_offline_grace(start, c, cfg, t) ==
    IF start = -1 THEN [in_grace |-> TRUE, remaining |-> OFFLINE_GRACE_PERIOD]
    ELSE IF get_auth_state(c, cfg, t) = STATE_EXPIRED
         THEN [in_grace |-> FALSE, remaining |-> 0]
         ELSE LET remaining == OFFLINE_GRACE_PERIOD - (t - start) IN
              IF remaining > 0 THEN [in_grace |-> TRUE, remaining |-> remaining]
              ELSE [in_grace |-> FALSE, remaining |-> 0]

start_offline_timer_Restarts(start, t) == t

\* AuthManager.start_offline_timer
start_offline_timer(start, t) == IF start = -1 THEN t ELSE start

\* NetworkClient.heartbeat: (success, auth_status) from what the server sent
heartbeat(r) ==
    IF ~r.ok THEN [success |-> FALSE, auth_status |-> None]
    ELSE IF r.code # 200 THEN [success |-> FALSE, auth_status |-> None]
    ELSE IF ~r.wellformed THEN [success |-> FALSE, auth_status |-> None]
    ELSE IF r.safeStatus = "OFF" \/ r.authStatus = AUTH_STATUS_EXPIRED
         THEN [success |-> TRUE, auth_status |-> AUTH_STATUS_EXPIRED]
         ELSE [success |-> TRUE, auth_status |-> AUTH_STATUS_NORMAL]

\* history record of a tools/client step
LastC(op, success, auth_status) ==
    [op |-> op, ok |-> success, code |-> 0, instr |-> auth_status,
     verified |-> FALSE, prior |-> None, sent |-> 0, cid |-> None,
     ret |-> FALSE]

Count(n) == IF n < MaxCalls THEN n + 1 ELSE n

\* time passes
Tick ==
    /\ impl = "tools_client"
    /\ now < MaxTime
    /\ now' = now + 1
    /\ last' = LastC("tick", FALSE, None)
    /\ UNCHANGED <<t_vars, l_vars, impl, config, config_auth_cache, auth_cache,
                   offline_start_time, shutdown_event, stop_event, app_pc, hb_pc,
                   startup_allowed, grace, net_calls>>

AfterStartupCheck_GoesOn(allowed) == "register"

\* ClientApplication.run, step 3: where run() goes after _check_startup_auth
AfterStartupCheck(allowed) == IF allowed THEN "register" ELSE "exit1"

\* ClientApplication._check_startup_auth (run() returns 1 when it denies;
\* _shutdown in the finally clause sets the stop event)
CheckStartupAuth ==
    /\ impl = "tools_client"
    /\ app_pc = "startup"
    /\ LET allowed == check_startup_auth(auth_cache, config_auth_cache, now) IN
       /\ startup_allowed' = IF allowed THEN "yes" ELSE "no"
       /\ app_pc' = AfterStartupCheck(allowed)
       /\ stop_event' = IF AfterStartupCheck(allowed) = "exit1" THEN TRUE ELSE stop_event
       /\ last' = LastC("startup_check", allowed, None)
    /\ UNCHANGED <<t_vars, l_vars, impl, now, config, config_auth_cache,
                   auth_cache, offline_start_time, shutdown_event, hb_pc, grace,
                   net_calls>>

\* ClientApplication._register_or_update, up to the request
RegisterOrUpdateSend ==
    /\ impl = "tools_client"
    /\ app_pc = "register"
    /\ app_pc' = IF ~config.machine_code THEN "register_wait" ELSE "update_wait"
    /\ net_calls' = Count(net_calls)
    /\ last' = LastC("register_or_update_send", FALSE, None)
    /\ UNCHANGED <<t_vars, l_vars, impl, now, config, config_auth_cache,
                   auth_cache, offline_start_time, shutdown_event, stop_event,
                   hb_pc, startup_allowed, grace>>

\* ClientApplication._do_register, success branch: the contents the config
\* file goes through, one per _save_config, in order.  set_client_id saves;
\* auth_manager.set_auth_key saves three times (auth_key, expire_time,
\* auth_cache); update_registration_info saves the rest.
RegistrationSaves(cfg, cache, r, t) ==
    LET c1 == IF r.has_client_id THEN [cfg EXCEPT !.client_id = TRUE] ELSE cfg
        c2 == [c1 EXCEPT !.auth_key = TRUE]
        c3 == [c2 EXCEPT !.expire_time = TRUE]
        c4 == IF r.has_auth_key THEN c3 ELSE c1
        cache4 == IF r.has_auth_key THEN ConfigCache(AUTH_STATUS_NORMAL, t)
                  ELSE cache
    IN  (IF r.has_client_id THEN <<[config |-> c1, auth_cache |-> cache]>>
         ELSE <<>>)
        \o (IF r.has_auth_key
            THEN <<[config |-> c2, auth_cache |-> cache],
                   [config |-> c3, auth_cache |-> cache],
                   [config |-> c3, auth_cache |-> cache4]>>
            ELSE <<>>)
        \o <<[config |-> [c4 EXCEPT !.machine_code = TRUE, !.expire_time = TRUE,
                                    !.auth_key = r.has_auth_key],
               auth_cache |-> cache4]>>

\* ClientApplication._do_register from the response on, then run() steps 5-7
\* (_start_heartbeat) or the return of 1
DoRegisterRecv(r) ==
    /\ impl = "tools_client"
    /\ app_pc = "register_wait"
    /\ IF r.success
       THEN LET saves == RegistrationSaves(config, config_auth_cache, r, now) IN
            /\ auth_cache' = IF r.has_auth_key
                             THEN CachedValue_set(AUTH_STATUS_NORMAL, now)
                             ELSE auth_cache
            /\ config' = saves[Len(saves)].config
            /\ config_auth_cache' = saves[Len(saves)].auth_cache
            /\ app_pc' = "main_loop"
            /\ hb_pc' = "loop"
            /\ UNCHANGED stop_event
       ELSE /\ app_pc' = "exit1"
            /\ stop_event' = TRUE
            /\ UNCHANGED <<auth_cache, config_auth_cache, config, hb_pc>>
    /\ last' = LastC("register", r.success, None)
    /\ UNCHANGED <<t_vars, l_vars, impl, now, offline_start_time, shutdown_event,
                   startup_allowed, grace, net_calls>>

\* the process is killed inside _do_register after the k-th save of a
\* successful registration and before the next one
DoRegisterCrash(r, k) ==
    /\ impl = "tools_client"
    /\ app_pc = "register_wait"
    /\ r.success
    /\ LET saves == RegistrationSaves(config, config_auth_cache, r, now) IN
       /\ k < Len(saves)
       /\ config' = saves[k].config
       /\ config_auth_cache' = saves[k].auth_cache
    /\ app_pc' = "killed"
    /\ last' = LastC("register_crash", FALSE, None)
    /\ UNCHANGED <<t_vars, l_vars, impl, now, auth_cache, offline_start_time,
                   shutdown_event, stop_event, hb_pc, startup_allowed, grace,
                   net_calls>>

\* ClientApplication._do_update from the response on, then _start_heartbeat
DoUpdateRecv(success) ==
    /\ impl = "tools_client"
    /\ app_pc = "update_wait"
    /\ offline_start_time' = IF success THEN offline_start_time
                             ELSE start_offline_timer(offline_start_time, now)
    /\ app_pc' = "main_loop"
    /\ hb_pc' = "loop"
    /\ last' = LastC("update", success, None)
    /\ UNCHANGED <<t_vars, l_vars, impl, now, config, config_auth_cache,
                   auth_cache, shutdown_event, stop_event, startup_allowed, grace,
                   net_calls>>

\* _heartbeat_loop: the loop test, and _send_heartbeat up to the request
HeartbeatLoopSend ==
    /\ impl = "tools_client"
    /\ hb_pc = "loop"
    /\ IF stop_event
       THEN /\ hb_pc' = "done"
            /\ UNCHANGED net_calls
            /\ last' = LastC("heartbeat_loop_end", FALSE, None)
       ELSE /\ hb_pc' = "wait"
            /\ net_calls' = Count(net_calls)
            /\ last' = LastC("heartbeat_send", FALSE, None)
    /\ UNCHANGED <<t_vars, l_vars, impl, now, config, config_auth_cache,
                   auth_cache, offline_start_time, shutdown_event, stop_event,
                   app_pc, startup_allowed, grace>>

\* AuthManager.update_auth_status: what it does to the offline timer
update_auth_status_timer(start, st) ==
    IF st = AUTH_STATUS_NORMAL THEN -1 ELSE start

\* AuthManager.reset_offline_timer
reset_offline_timer(start) == -1

TimerAfterHeartbeat_KeepsTimer(start, res, t) == start_offline_timer(start, t)

\* _send_heartbeat: the offline timer after the result of the request
TimerAfterHeartbeat(start, res, t) ==
    IF res.success
    THEN reset_offline_timer(update_auth_status_timer(start, res.auth_status))
    ELSE start_offline_timer(start, t)

\* ConfigManager.set_auth_cache: config["auth_cache"] after the call
set_auth_cache(st, t) == ConfigCache(st, t)

update_auth_status_CacheOnly(p, st, t) ==
    [cache |-> CachedValue_set(st, t), config |-> p.config]

\* AuthManager.update_auth_status: the status cache and config["auth_cache"]
\* after the call (both assigned inside one "with self._lock")
update_auth_status(p, st, t) ==
    [cache |-> CachedValue_set(st, t), config |-> set_auth_cache(st, t)]

\* AuthManager.handle_auth_expired: the same for the expired status
handle_auth_expired(p, t) ==
    [cache |-> CachedValue_set(AUTH_STATUS_EXPIRED, t),
     config |-> set_auth_cache(AUTH_STATUS_EXPIRED, t)]

\* _send_heartbeat: update_auth_status, and handle_auth_expired when the
\* status is expired
StatusAfterHeartbeat(p, st, t) ==
    LET p1 == update_auth_status(p, st, t) IN
    IF st = AUTH_STATUS_EXPIRED THEN handle_auth_expired(p1, t) ELSE p1

ShutdownAfterHeartbeat_NotRequested(ev, auth_status) == ev

\* _send_heartbeat: the shutdown event after a successful heartbeat;
\* handle_auth_expired() ends with request_shutdown()
ShutdownAfterHeartbeat(ev, auth_status) ==
    IF auth_status = AUTH_STATUS_EXPIRED THEN TRUE ELSE ev

\* _send_heartbeat from the result of network_client.heartbeat on
\* (update_auth_status, reset_offline_timer, handle_auth_expired /
\* start_offline_timer)
SendHeartbeatApply(r) ==
    /\ impl = "tools_client"
    /\ hb_pc = "wait"
    /\ LET res == heartbeat(r) IN
       /\ IF res.success
          THEN /\ auth_cache' =
                    StatusAfterHeartbeat(
                        [cache |-> auth_cache, config |-> config_auth_cache],
                        res.auth_status, now).cache
               /\ config_auth_cache' =
                    StatusAfterHeartbeat(
                        [cache |-> auth_cache, config |-> config_auth_cache],
                        res.auth_status, now).config
               /\ shutdown_event' = ShutdownAfterHeartbeat(shutdown_event,
                                                           res.auth_status)
          ELSE UNCHANGED <<auth_cache, config_auth_cache, shutdown_event>>
       /\ offline_start_time' = TimerAfterHeartbeat(offline_start_time, res, now)
       /\ last' = [LastC("heartbeat", res.success, res.auth_status)
                       EXCEPT !.code = r.code]
    /\ hb_pc' = "check"
    /\ UNCHANGED <<t_vars, l_vars, impl, now, config, stop_event, app_pc,
                   startup_allowed, grace, net_calls>>

\* _heartbeat_loop after _send_heartbeat: is_auth_expired, check_offline_grace
HeartbeatChecks ==
    /\ impl = "tools_client"
    /\ hb_pc = "check"
    /\ IF get_auth_state(auth_cache, config_auth_cache, now) = STATE_EXPIRED
       THEN /\ auth_cache' =
                 handle_auth_expired(
                     [cache |-> auth_cache, config |-> config_auth_cache],
                     now).cache
            /\ config_auth_cache' =
                 handle_auth_expired(
                     [cache |-> auth_cache, config |-> config_auth_cache],
                     now).config
            /\ shutdown_event' = TRUE
            /\ hb_pc' = "done"
            /\ last' = LastC("expired_exit", FALSE, None)
            /\ UNCHANGED grace
       ELSE LET g == check_offline_grace(offline_start_time, auth_cache,
                                         config_auth_cache, now) IN
            /\ grace' = g
            /\ IF ~g.in_grace
               THEN /\ shutdown_event' = TRUE
                    /\ hb_pc' = "done"
                    /\ last' = LastC("grace_exceeded", FALSE, None)
               ELSE /\ hb_pc' = "sleep"
                    /\ last' = LastC("grace_ok", TRUE, None)
                    /\ UNCHANGED shutdown_event
            /\ UNCHANGED <<auth_cache, config_auth_cache>>
    /\ UNCHANGED <<t_vars, l_vars, impl, now, config, offline_start_time,
                   stop_event, app_pc, startup_allowed, net_calls>>

\* _heartbeat_loop: _stop_event.wait(HEARTBEAT_INTERVAL) returns
HeartbeatWake ==
    /\ impl = "tools_client"
    /\ hb_pc = "sleep"
    /\ hb_pc' = "loop"
    /\ last' = LastC("heartbeat_wake", FALSE, None)
    /\ UNCHANGED <<t_vars, l_vars, impl, now, config, config_auth_cache,
                   auth_cache, offline_start_time, shutdown_event, stop_event,
                   app_pc, startup_allowed, grace, net_calls>>

\* signal_handler (SIGINT / SIGTERM / SIGHUP)
Signal ==
    /\ impl = "tools_client"
    /\ app_pc = "main_loop"
    /\ ~stop_event
    /\ stop_event' = TRUE
    /\ shutdown_event' = TRUE
    /\ last' = LastC("signal", FALSE, None)
    /\ UNCHANGED <<t_vars, l_vars, impl, now, config, config_auth_cache,
                   auth_cache, offline_start_time, app_pc, hb_pc, startup_allowed,
                   grace, net_calls>>

\* _main_loop ends, run() returns 0 through _shutdown
MainLoopExit ==
    /\ impl = "tools_client"
    /\ app_pc = "main_loop"
    /\ shutdown_event \/ stop_event
    /\ app_pc' = "exit0"
    /\ stop_event' = TRUE
    /\ last' = LastC("main_loop_exit", FALSE, None)
    /\ UNCHANGED <<t_vars, l_vars, impl, now, config, config_auth_cache,
                   auth_cache, offline_start_time, shutdown_event, hb_pc,
                   startup_allowed, grace, net_calls>>

NoGrace == [in_grace |-> TRUE, remaining |-> -1]

InitialOfflineTimer_Kept(start) == start

\* AuthManager.__init__: "self._offline_start_time = None"; nothing reads
\* the timer of an earlier process (it is written to no file)
InitialOfflineTimer(start) == -1

\* a new process (after run() returned, or after the old one was killed): the
\* module-level singletons are constructed again (AuthManager.__init__,
\* ClientApplication.__init__), the config file stays
ProcessStart ==
    /\ impl = "tools_client"
    /\ app_pc # "startup"
    /\ auth_cache' = load_auth_info(config_auth_cache, now)
    /\ offline_start_time' = InitialOfflineTimer(offline_start_time)
    /\ shutdown_event' = FALSE
    /\ stop_event' = FALSE
    /\ app_pc' = "startup"
    /\ hb_pc' = "off"
    /\ startup_allowed' = "none"
    /\ grace' = NoGrace
    /\ net_calls' = 0
    /\ last' = LastC("restart", FALSE, None)
    /\ UNCHANGED <<t_vars, l_vars, impl, now, config, config_auth_cache>>

\* the statuses a config file read at start can hold
PersistedStatuses == {AUTH_STATUS_NORMAL, AUTH_STATUS_EXPIRED, "revoked"}

\* a process has just started (module-level AuthManager() constructed); the
\* config file is absent (first run) or was left by an earlier run with one
\* of statuses
InitC(statuses) ==
    /\ now = 0
    /\ \/ /\ config = NoConfig
          /\ config_auth_cache = NoConfigCache
       \/ /\ config = RegisteredConfig
          /\ config_auth_cache \in {ConfigCache(st, 0) : st \in statuses}
    /\ auth_cache = load_auth_info(config_auth_cache, now)
    /\ offline_start_time = -1
    /\ shutdown_event = FALSE
    /\ stop_event = FALSE
    /\ app_pc = "startup"
    /\ hb_pc = "off"
    /\ startup_allowed = "none"
    /\ grace = NoGrace
    /\ net_calls = 0

\* the steps of tools/client that read or write the status cache, the
\* offline timer or the auth key outside "with self._lock":
\* check_startup_auth and is_auth_expired call get_auth_state, which reads
\* _auth_cache with the lock not taken.  set_auth_key, update_auth_status,
\* start_offline_timer, check_offline_grace, reset_offline_timer and
\* handle_auth_expired take it.
UnlockedAccessC(op) ==
    op \in {"startup_check", "expired_exit", "grace_ok", "grace_exceeded"}

LockAtRequest_HeldByCaller(op) == op

\* who holds AuthManager._lock while the request sent by step op is in flight:
\* network_client.register / update_info / heartbeat are called from
\* ClientApplication with no lock taken, and no "with self._lock" block of
\* AuthManager calls the network
LockAtRequest(op) == "none"

NextC ==
    \/ Tick
    \/ CheckStartupAuth
    \/ RegisterOrUpdateSend
    \/ \E r \in RegisterResults : DoRegisterRecv(r)
    \/ \E r \in RegisterResults :
         \E k \in 1..(Len(RegistrationSaves(config, config_auth_cache, r, now)) - 1) :
            DoRegisterCrash(r, k)
    \/ \E success \in BOOLEAN : DoUpdateRecv(success)
    \/ HeartbeatLoopSend
    \/ \E r \in ServerHeartbeats : SendHeartbeatApply(r)
    \/ HeartbeatChecks
    \/ HeartbeatWake
    \/ Signal
    \/ MainLoopExit
    \/ ProcessStart

-----------------------------------------------------------------------------
(* utils/crypto_tools.py on small strings *)

\* the longest string a library function is given
MaxLen == 2

\* a byte has ByteBits bits (8 in the code), a cipher block BlockLen bytes (16)
ByteBits == 3
BlockLen == 2

Bytes == 0..(2 ^ ByteBits - 1)

\* characters: Space is whitespace, AsciiChars take one byte in UTF-8, the
\* other characters take two; Digits are the characters of the text encodings
\* (the base64 and the hex alphabet)
Space == 0
AsciiChars == 0..3
Chars == 0..5
DigitZero == 1
Digits == DigitZero..3

Strings == UNION {[1..n -> Chars] : n \in 0..MaxLen}

\* what an operation that raised gives
Raised == <<-1>>

\* str.encode('utf-8'): an ASCII character is its own byte, another character
\* is a lead byte and a continuation byte
LeadByte == 6

RECURSIVE encode_utf8(_)
encode_utf8(s) ==
    IF s = <<>> THEN <<>>
    ELSE (IF Head(s) \in AsciiChars THEN <<Head(s)>> ELSE <<LeadByte, Head(s)>>)
         \o encode_utf8(Tail(s))

\* bytes.decode('utf-8'): raises on a lead byte with no continuation byte, on
\* a continuation byte alone and on a byte UTF-8 never uses
RECURSIVE decode_utf8(_)
decode_utf8(b) ==
    IF b = <<>> THEN <<>>
    ELSE IF Head(b) \in AsciiChars
         THEN LET r == decode_utf8(Tail(b)) IN
              IF r = Raised THEN Raised ELSE <<Head(b)>> \o r
    ELSE IF Head(b) = LeadByte /\ Len(b) >= 2 /\ b[2] \in Chars \ AsciiChars
         THEN LET r == decode_utf8(SubSeq(b, 3, Len(b))) IN
              IF r = Raised THEN Raised ELSE <<b[2]>> \o r
    ELSE Raised

\* padding.PKCS7(128).padder(): n bytes of value n, n in 1..BlockLen
padder(data) ==
    LET n == BlockLen - (Len(data) % BlockLen) IN data \o [i \in 1..n |-> n]

unpadder_KeepsPadding(data) ==
    IF Len(data) = 0 \/ Len(data) % BlockLen # 0 THEN Raised ELSE data

\* padding.PKCS7(128).unpadder(): raises unless the last byte is n in
\* 1..BlockLen and the last n bytes are n
unpadder(data) ==
    IF Len(data) = 0 \/ Len(data) % BlockLen # 0 THEN Raised
    ELSE LET n == data[Len(data)] IN
         IF /\ n \in 1..BlockLen
            /\ \A i \in (Len(data) - n + 1)..Len(data) : data[i] = n
         THEN SubSeq(data, 1, Len(data) - n)
         ELSE Raised

\* exclusive or of two bytes, bit by bit
RECURSIVE xor_bits(_, _, _)
xor_bits(a, b, bits) ==
    IF bits = 0 THEN 0
    ELSE ((a + b) % 2) + 2 * xor_bits(a \div 2, b \div 2, bits - 1)

xor_block(x, y) == [i \in 1..BlockLen |-> xor_bits(x[i], y[i], ByteBits)]

Blocks == [1..BlockLen -> Bytes]

\* a block as a number and back
RECURSIVE block_value(_)
block_value(blk) ==
    IF blk = <<>> THEN 0
    ELSE block_value(SubSeq(blk, 1, Len(blk) - 1)) * (2 ^ ByteBits) + blk[Len(blk)]

value_block(v) ==
    [i \in 1..BlockLen |-> (v \div ((2 ^ ByteBits) ^ (BlockLen - i))) % (2 ^ ByteBits)]

\* the block cipher under a key is a permutation of the blocks; a key is
\* stood for by the odd multiplier and the offset of an affine permutation
\* CryptoManager.get_aes_key()
get_aes_key == [mul |-> 5, add |-> 3]
\* LicenseManager._LICENSE_KEY
LICENSE_KEY == [mul |-> 11, add |-> 7]

\* algorithms.AES(key): one block encrypted
AES(key, blk) ==
    value_block((key.mul * block_value(blk) + key.add) % Cardinality(Blocks))

\* algorithms.AES(key): one block decrypted
AES_decrypt(key, blk) == CHOOSE p \in Blocks : AES(key, p) = blk

\* Cipher(AES, modes.CBC(iv)).encryptor(): each plaintext block is xored with
\* the ciphertext block before it (the IV for the first) and encrypted
RECURSIVE cbc_encryptor(_, _, _)
cbc_encryptor(key, prev, padded) ==
    IF padded = <<>> THEN <<>>
    ELSE LET c == AES(key, xor_block(SubSeq(padded, 1, BlockLen), prev)) IN
         c \o cbc_encryptor(key, c, SubSeq(padded, BlockLen + 1, Len(padded)))

\* Cipher(AES, modes.CBC(iv)).decryptor(), on whole blocks
RECURSIVE cbc_decryptor(_, _, _)
cbc_decryptor(key, prev, data) ==
    IF data = <<>> THEN <<>>
    ELSE LET c == SubSeq(data, 1, BlockLen) IN
         xor_block(AES_decrypt(key, c), prev)
         \o cbc_decryptor(key, c, SubSeq(data, BlockLen + 1, Len(data)))

\* Cipher(AES, modes.ECB()): each block on its own
RECURSIVE ecb_encryptor(_, _)
ecb_encryptor(key, padded) ==
    IF padded = <<>> THEN <<>>
    ELSE AES(key, SubSeq(padded, 1, BlockLen))
         \o ecb_encryptor(key, SubSeq(padded, BlockLen + 1, Len(padded)))

RECURSIVE ecb_decryptor(_, _)
ecb_decryptor(key, data) ==
    IF data = <<>> THEN <<>>
    ELSE AES_decrypt(key, SubSeq(data, 1, BlockLen))
         \o ecb_decryptor(key, SubSeq(data, BlockLen + 1, Len(data)))

\* the text encodings write a byte as two digits
RECURSIVE encode_digits(_)
encode_digits(data) ==
    IF data = <<>> THEN <<>>
    ELSE <<DigitZero + (Head(data) \div Cardinality(Digits)),
           DigitZero + (Head(data) % Cardinality(Digits))>>
         \o encode_digits(Tail(data))

RECURSIVE decode_digits(_)
decode_digits(text) ==
    IF text = <<>> THEN <<>>
    ELSE IF Len(text) < 2 THEN Raised
    ELSE LET v == (text[1] - DigitZero) * Cardinality(Digits) + (text[2] - DigitZero)
             r == decode_digits(SubSeq(text, 3, Len(text)))
         IN  IF v \notin Bytes \/ r = Raised THEN Raised ELSE <<v>> \o r

\* base64.b64encode
b64encode(data) == encode_digits(data)

\* base64.b64decode (validate=False): characters outside the alphabet are
\* discarded, then the digits are decoded; raises on a group cut short
b64decode(text) == decode_digits(SelectSeq(text, LAMBDA c : c \in Digits))

\* the issuer's hex text of the bytes
hexlify(data) == encode_digits(data)

\* binascii.unhexlify: raises on a character that is no hex digit and on an
\* odd length
unhexlify(text) ==
    IF \E i \in 1..Len(text) : text[i] \notin Digits THEN Raised
    ELSE decode_digits(text)

\* the initialization vectors os.urandom(16) can give
IVs == Blocks

\* CryptoManager.encrypt_aes256, iv being what os.urandom(16) gave
CryptoManager_encrypt_aes256(plaintext, iv) ==
    IF plaintext = <<>> THEN <<>>
    ELSE b64encode(iv \o cbc_encryptor(get_aes_key, iv, padder(encode_utf8(plaintext))))

\* CryptoManager.decrypt_aes256: "" when anything raises
CryptoManager_decrypt_aes256(ciphertext_b64) ==
    IF ciphertext_b64 = <<>> THEN <<>>
    ELSE LET data == b64decode(ciphertext_b64) IN
         IF data = Raised \/ Len(data) < BlockLen THEN <<>>
         ELSE LET iv == SubSeq(data, 1, BlockLen)
                  actual_ciphertext == SubSeq(data, BlockLen + 1, Len(data))
              IN  IF Len(actual_ciphertext) % BlockLen # 0 THEN <<>>
                  ELSE LET plaintext ==
                               unpadder(cbc_decryptor(get_aes_key, iv,
                                                      actual_ciphertext))
                       IN  IF plaintext = Raised THEN <<>>
                           ELSE IF decode_utf8(plaintext) = Raised THEN <<>>
                           ELSE decode_utf8(plaintext)

\* str.strip(): whitespace removed at both ends
RECURSIVE lstrip(_)
lstrip(s) == IF s # <<>> /\ Head(s) = Space THEN lstrip(Tail(s)) ELSE s

RECURSIVE rstrip(_)
rstrip(s) ==
    IF s # <<>> /\ s[Len(s)] = Space THEN rstrip(SubSeq(s, 1, Len(s) - 1)) ELSE s

strip(s) == rstrip(lstrip(s))

\* LicenseManager._decrypt_aes_ecb_hex: the plaintext, or it raises
LicenseManager_decrypt_aes_ecb_hex(hex_str) ==
    LET encrypted_bytes == unhexlify(hex_str) IN
    IF encrypted_bytes = Raised \/ Len(encrypted_bytes) % BlockLen # 0 THEN Raised
    ELSE LET plaintext == unpadder(ecb_decryptor(LICENSE_KEY, encrypted_bytes)) IN
         IF plaintext = Raised THEN Raised ELSE decode_utf8(plaintext)

LicenseManager_verify_license_AnyCode(secret_hex, machine_code) ==
    /\ secret_hex # <<>>
    /\ machine_code # <<>>
    /\ LicenseManager_decrypt_aes_ecb_hex(secret_hex) # Raised

\* LicenseManager.verify_license
LicenseManager_verify_license(secret_hex, machine_code) ==
    IF secret_hex = <<>> \/ machine_code = <<>> THEN FALSE
    ELSE LET decrypted_code == LicenseManager_decrypt_aes_ecb_hex(secret_hex) IN
         IF decrypted_code = Raised THEN FALSE
         ELSE strip(decrypted_code) = strip(machine_code)

\* the issuer's scheme (the server's AES/ECB/PKCS5Padding under the same
\* 16-byte key, written as hex): the secret minted for a machine code
SafeSecret(machine_code) ==
    hexlify(ecb_encryptor(LICENSE_KEY, padder(encode_utf8(machine_code))))

\* the machine codes given to verify_license and to the issuer: not empty,
\* of letters and digits, with or without whitespace around or inside them
MachineCodes == UNION {[1..n -> {Space, DigitZero, DigitZero + 1}] : n \in 1..MaxLen}

\* the texts that no string encrypts to under the issuer's scheme: a block
\* that does not decrypt to padded UTF-8, a text cut short, a text with a
\* character that is no hex digit
ForgedSecrets ==
    ({hexlify(b) : b \in Blocks}
     \cup {<<>>, <<DigitZero>>, <<Space, DigitZero>>})
    \ {SafeSecret(m) : m \in Strings}

\* the library call made last
NoCall ==
    [fn |-> "none", arg |-> <<>>, iv |-> <<>>, code |-> <<>>, plaintext |-> <<>>,
     minted |-> FALSE, ret |-> <<>>, ok |-> FALSE, value |-> 0, before |-> -1]

\* a caller seals the string S
EncryptCall(S, iv) ==
    /\ impl = "crypto_tools"
    /\ call = NoCall
    /\ call' = [NoCall EXCEPT !.fn = "encrypt_aes256", !.arg = S, !.iv = iv,
                              !.ret = CryptoManager_encrypt_aes256(S, iv)]
    /\ UNCHANGED <<impl, last, t_vars, c_vars, n_vars, host, uuid_node, machine_id_file>>

\* the caller opens what encrypt_aes256 returned
DecryptCall ==
    /\ impl = "crypto_tools"
    /\ call.fn = "encrypt_aes256"
    /\ call' = [NoCall EXCEPT !.fn = "decrypt_aes256", !.arg = call.ret,
                              !.plaintext = call.arg,
                              !.ret = CryptoManager_decrypt_aes256(call.ret)]
    /\ UNCHANGED <<impl, last, t_vars, c_vars, n_vars, host, uuid_node, machine_id_file>>

\* verify_license(secret, machine_code), the secret minted by the issuer for m
VerifyMintedCall(m, machine_code) ==
    /\ impl = "crypto_tools"
    /\ call = NoCall
    /\ call' = [NoCall EXCEPT
                  !.fn = "verify_license", !.arg = SafeSecret(m),
                  !.plaintext = m, !.minted = TRUE, !.code = machine_code,
                  !.ok = LicenseManager_verify_license(SafeSecret(m), machine_code)]
    /\ UNCHANGED <<impl, last, t_vars, c_vars, n_vars, host, uuid_node, machine_id_file>>

\* verify_license(secret, machine_code), the secret not minted by the issuer
VerifyForgedCall(secret_hex, machine_code) ==
    /\ impl = "crypto_tools"
    /\ call = NoCall
    /\ call' = [NoCall EXCEPT
                  !.fn = "verify_license", !.arg = secret_hex,
                  !.code = machine_code,
                  !.ok = LicenseManager_verify_license(secret_hex, machine_code)]
    /\ UNCHANGED <<impl, last, t_vars, c_vars, n_vars, host, uuid_node, machine_id_file>>

\* the caller is done with the result
ReturnCall ==
    /\ impl = "crypto_tools"
    /\ call # NoCall
    /\ call' = NoCall
    /\ UNCHANGED <<impl, last, t_vars, c_vars, n_vars, host, uuid_node, machine_id_file>>

NextCrypto ==
    \/ /\ call = NoCall
       /\ \/ \E S \in Strings, iv \in IVs : EncryptCall(S, iv)
          \/ \E m \in MachineCodes, machine_code \in MachineCodes :
               VerifyMintedCall(m, machine_code)
          \/ \E secret_hex \in ForgedSecrets, machine_code \in MachineCodes :
               VerifyForgedCall(secret_hex, machine_code)
    \/ DecryptCall
    \/ ReturnCall

-----------------------------------------------------------------------------
(* the hardware collectors *)

\* a field that could not be read ("UNKNOWN_CPU", "UNKNOWN_BOARD",
\* "UNKNOWN_DISK", an empty mac_list, an empty machine code)
UNKNOWN == 0

\* what the sources of a host give, the same at every call: the serial
\* numbers and the first physical MAC that hardware_tools reads, the hardware
\* address uuid.getnode() can read, the machine code the platform collector
\* of tools/client reads, and whether the machine id file can be written
Hosts ==
    [cpu_serial : {UNKNOWN, 1}, board_sn : {UNKNOWN, 1}, disk_id : {UNKNOWN, 1},
     mac_list : {UNKNOWN, 1}, hw_node : {UNKNOWN, 2}, collector_code : {UNKNOWN, 1},
     id_writable : BOOLEAN]

NoHost ==
    [cpu_serial |-> UNKNOWN, board_sn |-> UNKNOWN, disk_id |-> UNKNOWN,
     mac_list |-> UNKNOWN, hw_node |-> UNKNOWN, collector_code |-> UNKNOWN,
     id_writable |-> FALSE]

\* the random 48-bit numbers uuid.getnode() falls back to
RandomNodes == {3, 4}

\* the values uuid.uuid4() can give
Uuids == {5, 6}

\* uuid.getnode(): the value kept in this process, else a hardware address
\* it can read, else a random number
uuid_getnode(h, cached) ==
    IF cached # 0 THEN {cached}
    ELSE IF h.hw_node # UNKNOWN THEN {h.hw_node}
    ELSE RandomNodes

\* HardwareCollector.get_mac_address: the first of the sorted physical MACs,
\* or uuid.getnode() when there is none
get_mac_address(h, node) == IF h.mac_list # UNKNOWN THEN h.mac_list ELSE node

\* AuthManager._generate_device_code: raw_str, the four features joined
raw_str(h, node) ==
    1 + h.cpu_serial + 2 * h.board_sn + 4 * h.disk_id + 8 * get_mac_address(h, node)

\* AuthManager._generate_device_code()
GenerateDeviceCode ==
    /\ impl = "collectors"
    /\ \E node \in uuid_getnode(host, uuid_node) :
         /\ uuid_node' = IF host.mac_list = UNKNOWN THEN node ELSE uuid_node
         /\ call' = [NoCall EXCEPT
                       !.fn = "generate_device_code",
                       !.value = generate_md5(raw_str(host, node)),
                       !.before = IF call.fn = "generate_device_code"
                                  THEN call.value ELSE -1]
    /\ UNCHANGED <<impl, last, t_vars, c_vars, n_vars, host, machine_id_file>>

\* HardwareCollector.get_machine_code() of tools/client: the collector's
\* code, else the persisted machine id, else a new uuid4 that is persisted
\* when the file can be written (the result of _persist_machine_id is
\* not looked at)
GetMachineCode ==
    /\ impl = "collectors"
    /\ \E machine_code \in
            (IF host.collector_code # UNKNOWN THEN {host.collector_code}
             ELSE IF machine_id_file # 0 THEN {machine_id_file}
             ELSE Uuids) :
         /\ machine_id_file' =
                IF host.collector_code = UNKNOWN /\ machine_id_file = 0
                   /\ host.id_writable
                THEN machine_code ELSE machine_id_file
         /\ call' = [NoCall EXCEPT
                       !.fn = "get_machine_code",
                       !.value = machine_code,
                       !.before = IF call.fn = "get_machine_code"
                                  THEN call.value ELSE -1]
    /\ UNCHANGED <<impl, last, t_vars, c_vars, n_vars, host, uuid_node>>

\* the process ends and a new one starts on the same host: the uuid module
\* is loaded again, the files stay
RestartCollectors ==
    /\ impl = "collectors"
    /\ uuid_node # 0
    /\ uuid_node' = 0
    /\ UNCHANGED <<impl, last, t_vars, c_vars, n_vars, call, host, machine_id_file>>

NextCollectors == GenerateDeviceCode \/ GetMachineCode \/ RestartCollectors

-----------------------------------------------------------------------------
(* tools/client/network_client.py : NetworkClient._request_with_retry *)

\* the requests sent through _request_with_retry: register, update_info,
\* heartbeat
RetryUrls == {"register", "update", "heartbeat"}

\* the errors _make_request returns: timeout, connection failure, HTTP error
RequestErrors == {"timeout", "connect_failed", "http_error"}

\* what _make_request returns: (True, resp_data, "") or (False, None, error)
AttemptOutcomes ==
    {[success |-> TRUE, resp_data |-> r, error |-> ""] : r \in {"resp_a", "resp_b"}}
    \cup {[success |-> FALSE, resp_data |-> None, error |-> e] : e \in RequestErrors}

\* no call of _request_with_retry is in progress
NoRetry ==
    [pc |-> "idle", url |-> None, attempt |-> 0, last_error |-> "",
     outcomes |-> <<>>, sleeps |-> 0,
     ret |-> [success |-> FALSE, resp_data |-> None, error |-> ""]]

SleepsAfter_EveryFailure(attempt, max_retries) == TRUE

\* "if attempt < max_retries - 1: time.sleep(RETRY_INTERVAL)"
SleepsAfter(attempt, max_retries) == attempt < max_retries - 1

\* "for attempt in range(max_retries)": the loop takes the value a or is
\* over, and then the function returns (False, None, last_error)
LoopHead(r, a, max_retries) ==
    IF a < max_retries
    THEN [r EXCEPT !.pc = "request", !.attempt = a]
    ELSE [r EXCEPT !.pc = "returned",
                   !.ret = [success |-> FALSE, resp_data |-> None,
                            error |-> r.last_error]]

\* _request_with_retry(url, data) is called (max_retries = MAX_RETRY)
RequestWithRetryCall(url) ==
    /\ impl = "network_client"
    /\ retry.pc = "idle"
    /\ retry' = LoopHead([NoRetry EXCEPT !.url = url], 0, MAX_RETRY)
    /\ UNCHANGED <<impl, last, t_vars, c_vars, call, host, uuid_node,
                   machine_id_file, singleton, engine>>

\* one turn of the loop: _make_request returns
MakeRequest(o) ==
    /\ impl = "network_client"
    /\ retry.pc = "request"
    /\ LET r == [retry EXCEPT !.outcomes = Append(@, o)] IN
       retry' =
         IF o.success
         THEN [r EXCEPT !.pc = "returned",
                        !.ret = [success |-> TRUE, resp_data |-> o.resp_data,
                                 error |-> ""]]
         ELSE IF SleepsAfter(retry.attempt, MAX_RETRY)
              THEN [r EXCEPT !.pc = "sleep", !.last_error = o.error]
              ELSE LoopHead([r EXCEPT !.last_error = o.error],
                            retry.attempt + 1, MAX_RETRY)
    /\ UNCHANGED <<impl, last, t_vars, c_vars, call, host, uuid_node,
                   machine_id_file, singleton, engine>>

\* time.sleep(RETRY_INTERVAL) returns
RetrySleep ==
    /\ impl = "network_client"
    /\ retry.pc = "sleep"
    /\ retry' = LoopHead([retry EXCEPT !.sleeps = @ + 1], retry.attempt + 1,
                         MAX_RETRY)
    /\ UNCHANGED <<impl, last, t_vars, c_vars, call, host, uuid_node,
                   machine_id_file, singleton, engine>>

\* the caller has taken the result
RetryReturn ==
    /\ impl = "network_client"
    /\ retry.pc = "returned"
    /\ retry' = NoRetry
    /\ UNCHANGED <<impl, last, t_vars, c_vars, call, host, uuid_node,
                   machine_id_file, singleton, engine>>

NextRetry ==
    \/ \E url \in RetryUrls : RequestWithRetryCall(url)
    \/ \E o \in AttemptOutcomes : MakeRequest(o)
    \/ RetrySleep
    \/ RetryReturn

-----------------------------------------------------------------------------
(* traffic_client/core/authorize.py : AuthManager.__new__ and __init__ *)

\* the threads that construct AuthManager
Threads == 1..MaxThreads

\* the class before any construction: _instance is None (0), _lock is free
\* (0); the instance has no attribute yet; no thread is constructing.
\* init_runs counts the runs of the body of __init__; reset says that a run
\* of the body assigned status and client_id after a construction had
\* completed; lost says that such a run overwrote AUTHORIZED.
NoSingleton ==
    [instance |-> 0, lock |-> 0, initialized |-> FALSE, status |-> None,
     client_id |-> None, auth_token |-> "unset",
     pc |-> [t \in 1..MaxThreads |-> "idle"],
     self |-> [t \in 1..MaxThreads |-> 0],
     init_runs |-> 0, reset |-> FALSE, lost |-> FALSE]

\* a thread calls AuthManager()
Construct(t) ==
    /\ impl = "singleton"
    /\ singleton.pc[t] \in {"idle", "done"}
    /\ singleton' = [singleton EXCEPT !.pc[t] = "new_check", !.self[t] = 0]
    /\ UNCHANGED <<impl, last, t_vars, c_vars, call, host, uuid_node,
                   machine_id_file, retry, engine>>

\* __new__: "if not cls._instance", outside the lock; "return cls._instance"
NewCheck(t) ==
    /\ impl = "singleton"
    /\ singleton.pc[t] = "new_check"
    /\ singleton' =
         IF singleton.instance = 0
         THEN [singleton EXCEPT !.pc[t] = "new_lock"]
         ELSE [singleton EXCEPT !.pc[t] = "init_check",
                                !.self[t] = singleton.instance]
    /\ UNCHANGED <<impl, last, t_vars, c_vars, call, host, uuid_node,
                   machine_id_file, retry, engine>>

\* __new__: "with cls._lock" is entered
NewLock(t) ==
    /\ impl = "singleton"
    /\ singleton.pc[t] = "new_lock"
    /\ singleton.lock = 0
    /\ singleton' = [singleton EXCEPT !.pc[t] = "new_locked", !.lock = t]
    /\ UNCHANGED <<impl, last, t_vars, c_vars, call, host, uuid_node,
                   machine_id_file, retry, engine>>

\* __new__: the second test and the creation under the lock, the lock is
\* released, cls._instance is returned
NewCreate(t) ==
    /\ impl = "singleton"
    /\ singleton.pc[t] = "new_locked"
    /\ LET inst == IF singleton.instance = 0 THEN t ELSE singleton.instance IN
       singleton' = [singleton EXCEPT !.instance = inst, !.lock = 0,
                                      !.pc[t] = "init_check", !.self[t] = inst]
    /\ UNCHANGED <<impl, last, t_vars, c_vars, call, host, uuid_node,
                   machine_id_file, retry, engine>>

\* __init__: "if hasattr(self, 'initialized'): return"
InitSkipped(initialized) == initialized

\* __init__: the test of the attribute initialized, with no lock taken
InitCheck(t) ==
    /\ impl = "singleton"
    /\ singleton.pc[t] = "init_check"
    /\ singleton' = [singleton EXCEPT
                       !.pc[t] = IF InitSkipped(singleton.initialized)
                                 THEN "done" ELSE "init_body"]
    /\ UNCHANGED <<impl, last, t_vars, c_vars, call, host, uuid_node,
                   machine_id_file, retry, engine>>

\* __init__: the assignments of status, client_id and auth_token
InitBody(t) ==
    /\ impl = "singleton"
    /\ singleton.pc[t] = "init_body"
    /\ singleton' = [singleton EXCEPT
                       !.status = UNAUTHORIZED, !.client_id = None,
                       !.auth_token = None,
                       !.pc[t] = "init_flag",
                       !.init_runs = @ + 1,
                       !.reset = @ \/ singleton.initialized,
                       !.lost = @ \/ singleton.status = AUTHORIZED]
    /\ UNCHANGED <<impl, last, t_vars, c_vars, call, host, uuid_node,
                   machine_id_file, retry, engine>>

\* __init__: "self.initialized = True"
InitFlag(t) ==
    /\ impl = "singleton"
    /\ singleton.pc[t] = "init_flag"
    /\ singleton' = [singleton EXCEPT !.initialized = TRUE, !.pc[t] = "done"]
    /\ UNCHANGED <<impl, last, t_vars, c_vars, call, host, uuid_node,
                   machine_id_file, retry, engine>>

\* a thread whose construction has returned logs in on the instance and the
\* server accepts (login(): client_id and status are assigned)
InstanceLogin(t, cid) ==
    /\ impl = "singleton"
    /\ singleton.pc[t] = "done"
    /\ singleton.status # AUTHORIZED
    /\ singleton' = [singleton EXCEPT !.status = AUTHORIZED, !.client_id = cid]
    /\ UNCHANGED <<impl, last, t_vars, c_vars, call, host, uuid_node,
                   machine_id_file, retry, engine>>

NextSingleton ==
    \E t \in Threads :
        \/ Construct(t)
        \/ NewCheck(t)
        \/ NewLock(t)
        \/ NewCreate(t)
        \/ InitCheck(t)
        \/ InitBody(t)
        \/ InitFlag(t)
        \/ \E cid \in ClientIds : InstanceLogin(t, cid)

-----------------------------------------------------------------------------
(* traffic_client/core/engine.py : Engine *)

\* the threads start() can have created and not yet seen end
Slots == 1..MaxEngineThreads

\* Engine.__init__: running is False, _thread is None (0); the schedule
\* module holds no job; no scheduler thread exists.  caller is where the
\* thread that calls start() and stop() is; op is the call or step made
\* last; stopped says that stop() has returned and start() was not called
\* since; late_job says that a heartbeat job was begun while stopped.
NoEngine ==
    [running |-> FALSE, thread |-> 0, jobs |-> 0,
     thr |-> [s \in 1..MaxEngineThreads |-> "none"],
     caller |-> "idle", op |-> "init", stopped |-> FALSE, late_job |-> FALSE]

\* the threads of _run_scheduler that have not ended
SchedulerThreads ==
    {s \in Slots : engine.thr[s] \in {"started", "loop", "job", "sleep"}}

\* start(): "if self.running: return", else running = True and the
\* synchronous check_auth() begins
EngineStart ==
    /\ impl = "engine"
    /\ engine.caller = "idle"
    /\ engine' = IF engine.running
                 THEN [engine EXCEPT !.op = "start_noop"]
                 ELSE [engine EXCEPT !.running = TRUE, !.caller = "start_auth",
                                     !.op = "start", !.stopped = FALSE]
    /\ UNCHANGED <<impl, last, t_vars, c_vars, call, host, uuid_node,
                   machine_id_file, retry, singleton>>

\* start(): check_auth() has returned; the thread is created and started
EngineStartThread(s) ==
    /\ impl = "engine"
    /\ engine.caller = "start_auth"
    /\ engine.thr[s] \in {"none", "ended"}
    /\ engine' = [engine EXCEPT !.thr[s] = "started", !.thread = s,
                                 !.caller = "idle", !.op = "start_thread"]
    /\ UNCHANGED <<impl, last, t_vars, c_vars, call, host, uuid_node,
                   machine_id_file, retry, singleton>>

\* _run_scheduler: schedule.every(interval).seconds.do(self._heartbeat_job)
ThreadRegister(s) ==
    /\ impl = "engine"
    /\ engine.thr[s] = "started"
    /\ engine.jobs < MaxJobs
    /\ engine' = [engine EXCEPT !.jobs = @ + 1, !.thr[s] = "loop",
                                 !.op = "register"]
    /\ UNCHANGED <<impl, last, t_vars, c_vars, call, host, uuid_node,
                   machine_id_file, retry, singleton>>

\* _run_scheduler: "while self.running"
LoopGoesOn(running) == running

\* _run_scheduler: the test of the loop and schedule.run_pending(), which
\* begins a job that is due or finds none due
ThreadLoop(s, due) ==
    /\ impl = "engine"
    /\ engine.thr[s] = "loop"
    /\ engine' =
         IF ~LoopGoesOn(engine.running)
         THEN [engine EXCEPT !.thr[s] = "ended", !.op = "thread_end"]
         ELSE IF due /\ engine.jobs > 0
              THEN [engine EXCEPT !.thr[s] = "job", !.op = "job",
                                  !.late_job = @ \/ engine.stopped]
              ELSE [engine EXCEPT !.thr[s] = "sleep", !.op = "no_job"]
    /\ UNCHANGED <<impl, last, t_vars, c_vars, call, host, uuid_node,
                   machine_id_file, retry, singleton>>

\* _heartbeat_job returns (check_auth() has answered); time.sleep(1) begins
ThreadJobDone(s) ==
    /\ impl = "engine"
    /\ engine.thr[s] = "job"
    /\ engine' = [engine EXCEPT !.thr[s] = "sleep", !.op = "job_done"]
    /\ UNCHANGED <<impl, last, t_vars, c_vars, call, host, uuid_node,
                   machine_id_file, retry, singleton>>

\* time.sleep(1) returns
ThreadWake(s) ==
    /\ impl = "engine"
    /\ engine.thr[s] = "sleep"
    /\ engine' = [engine EXCEPT !.thr[s] = "loop", !.op = "wake"]
    /\ UNCHANGED <<impl, last, t_vars, c_vars, call, host, uuid_node,
                   machine_id_file, retry, singleton>>

\* stop(): running = False, schedule.clear(), and the join begins when a
\* thread was ever started
EngineStop ==
    /\ impl = "engine"
    /\ engine.caller = "idle"
    /\ engine' = [engine EXCEPT
                    !.running = FALSE, !.jobs = 0, !.op = "stop",
                    !.caller = IF engine.thread # 0 THEN "stop_join" ELSE "idle",
                    !.stopped = (engine.thread = 0)]
    /\ UNCHANGED <<impl, last, t_vars, c_vars, call, host, uuid_node,
                   machine_id_file, retry, singleton>>

\* stop(): self._thread.join(timeout=2) returns, because the thread has
\* ended or because two seconds have passed while the thread is inside a
\* heartbeat job (a request with its timeout and retries); a thread that is
\* asleep for one second or at the loop test ends within the two seconds
EngineStopJoined ==
    /\ impl = "engine"
    /\ engine.caller = "stop_join"
    /\ engine.thr[engine.thread] \in {"ended", "job"}
    /\ engine' = [engine EXCEPT !.caller = "idle", !.op = "stop_joined",
                                 !.stopped = TRUE]
    /\ UNCHANGED <<impl, last, t_vars, c_vars, call, host, uuid_node,
                   machine_id_file, retry, singleton>>

NextEngine ==
    \/ EngineStart
    \/ \E s \in Slots : EngineStartThread(s)
    \/ \E s \in Slots : ThreadRegister(s)
    \/ \E s \in Slots, due \in BOOLEAN : ThreadLoop(s, due)
    \/ \E s \in Slots : ThreadJobDone(s)
    \/ \E s \in Slots : ThreadWake(s)
    \/ EngineStop
    \/ EngineStopJoined

-----------------------------------------------------------------------------

vars == <<impl, last, t_vars, c_vars, l_vars>>

\* no library call is followed on its own
InitL ==
    /\ call = NoCall
    /\ host = NoHost
    /\ uuid_node = 0
    /\ machine_id_file = 0
    /\ retry = NoRetry
    /\ singleton = NoSingleton
    /\ engine = NoEngine

Init ==
    /\ last = Last("init", NoResp, FALSE)
    /\ InitL
    /\ \/ /\ impl = "traffic_client"
          /\ InitT(Hardware)
          /\ InitC({})
       \/ /\ impl = "tools_client"
          /\ InitT({1})
          /\ InitC(PersistedStatuses)

Next == NextT \/ NextC

Spec == Init /\ [][Next]_vars

\* the scheduled jobs of traffic_client over a saved file that gets damaged
InitStore ==
    /\ last = Last("init", NoResp, FALSE)
    /\ InitL
    /\ impl = "traffic_client"
    /\ InitStoreT
    /\ InitC({})

StoreSpec == InitStore /\ [][NextStore]_vars

\* the functions of utils/crypto_tools.py called on their own
InitCrypto ==
    /\ last = Last("init", NoResp, FALSE)
    /\ impl = "crypto_tools"
    /\ InitT({1})
    /\ InitC({})
    /\ InitL

CryptoSpec == InitCrypto /\ [][NextCrypto]_vars

\* the fingerprint computed again and again on one host
InitCollectors ==
    /\ last = Last("init", NoResp, FALSE)
    /\ impl = "collectors"
    /\ InitT({1})
    /\ InitC({})
    /\ call = NoCall
    /\ host \in Hosts
    /\ uuid_node = 0
    /\ machine_id_file = 0
    /\ retry = NoRetry
    /\ singleton = NoSingleton
    /\ engine = NoEngine

CollectSpec == InitCollectors /\ [][NextCollectors]_vars

\* AuthManager() called from MaxThreads threads
InitSingleton ==
    /\ last = Last("init", NoResp, FALSE)
    /\ impl = "singleton"
    /\ InitT({1})
    /\ InitC({})
    /\ InitL

SingletonSpec == InitSingleton /\ [][NextSingleton]_vars

\* one Engine whose start() and stop() are called one after the other
InitEngine ==
    /\ last = Last("init", NoResp, FALSE)
    /\ impl = "engine"
    /\ InitT({1})
    /\ InitC({})
    /\ InitL

EngineSpec == InitEngine /\ [][NextEngine]_vars

\* tools/client alone.  _main_loop looks at the shutdown event every second
\* (_stop_event.wait(1)), so its exit is taken once it stays possible.
InitExpiry ==
    /\ last = Last("init", NoResp, FALSE)
    /\ InitL
    /\ impl = "tools_client"
    /\ InitT({1})
    /\ InitC(PersistedStatuses)

ExpirySpec == InitExpiry /\ [][NextC]_vars /\ WF_vars(MainLoopExit)

\* _request_with_retry called again and again
InitRetry ==
    /\ last = Last("init", NoResp, FALSE)
    /\ impl = "network_client"
    /\ InitT({1})
    /\ InitC({})
    /\ InitL

\* every request ends (REQUEST_TIMEOUT bounds it) and so does every sleep
RetrySpec ==
    /\ InitRetry
    /\ [][NextRetry]_vars
    /\ WF_vars(\E o \in AttemptOutcomes : MakeRequest(o))
    /\ WF_vars(RetrySleep)

-----------------------------------------------------------------------------
(* Properties *)

\* C1: the status is AUTHORIZED only if the most recent assignment of
\* AUTHORIZED was made by a login whose response was successful and whose
\* secret verified against the local device code; no heartbeat sets it.
C1_AuthorizedOnlyByVerifiedLogin ==
    status = AUTHORIZED => authorized_by = "login_verified"

\* C2: once a hardware mismatch has been applied, no sequence of heartbeat,
\* integrity-recheck and retry jobs makes the status AUTHORIZED again; only a
\* new successful login does.
C2_NoSilentRecovery ==
    mismatch => status # AUTHORIZED

\* C3: a heartbeat result never overwrites a hardware mismatch that has been
\* applied: right after a heartbeat response was processed with a mismatch
\* pending, the status is still EXCEPTION.
C3_MismatchPrecedence ==
    (mismatch /\ last.op = "heartbeat") => status = EXCEPTION

\* the step last' records is the processing of a heartbeat whose request
\* failed or whose response is missing its status
HeartbeatFailed(l) ==
    /\ l.op = "heartbeat"
    /\ \/ ~l.ok
       \/ impl = "traffic_client" /\ l.code # 200
       \/ l.instr = None

C5_ExpiredRevokedOnlyByServer ==
    [][/\ (status' \in {EXPIRED, REVOKED} /\ status' # status) =>
            (last'.op = "heartbeat" /\ last'.ok /\ last'.code = 200
               /\ last'.instr = status')
       /\ \/ /\ get_auth_state(auth_cache', config_auth_cache', now') = STATE_EXPIRED
             /\ get_auth_state(auth_cache, config_auth_cache, now) # STATE_EXPIRED
          \/ /\ config_auth_cache'.status = AUTH_STATUS_EXPIRED
             /\ config_auth_cache.status # AUTH_STATUS_EXPIRED
          => (last'.op = "heartbeat" /\ last'.ok
                /\ last'.instr = AUTH_STATUS_EXPIRED)]_vars

C5_Witness ==
    /\ last.op = "heartbeat"
    /\ last.instr = "revoked"
    /\ status = REVOKED
    /\ authorized_by # "none"

C7_FastLocalDeny ==
    startup_allowed = "no" =>
        (net_calls = 0 /\ app_pc = "exit1" /\ hb_pc = "off")

C7_Witness ==
    /\ startup_allowed = "no"
    /\ config_auth_cache.status = AUTH_STATUS_EXPIRED
    /\ app_pc = "exit1"

\* C8: with the offline timer running since t = 0, the check made by the
\* heartbeat loop at time t returns (true, G - t) and the loop goes on when
\* t < G, and returns (false, 0) and the loop requests shutdown when t >= G.
C8_OfflineGraceBoundary ==
    (last.op \in {"grace_ok", "grace_exceeded"} /\ offline_start_time # -1) =>
        LET t == now - offline_start_time IN
        IF t < OFFLINE_GRACE_PERIOD
        THEN /\ grace = [in_grace |-> TRUE, remaining |-> OFFLINE_GRACE_PERIOD - t]
             /\ hb_pc = "sleep"
        ELSE /\ grace = [in_grace |-> FALSE, remaining |-> 0]
             /\ hb_pc = "done"
             /\ shutdown_event

C8_Witness ==
    /\ last.op = "grace_exceeded"
    /\ offline_start_time # -1
    /\ now - offline_start_time = OFFLINE_GRACE_PERIOD

\* C9: when the heartbeat loop finds the offline grace period exceeded, the
\* authorization state reads EXPIRED afterwards.
C9_GraceExceededExpires ==
    last.op = "grace_exceeded" =>
        get_auth_state(auth_cache, config_auth_cache, now) = STATE_EXPIRED

\* C10: right after a successful heartbeat has been applied the offline timer
\* is None.
C10_TimerResetOnSuccess ==
    (impl = "tools_client" /\ last.op = "heartbeat" /\ last.ok) =>
        offline_start_time = -1

\* a successful heartbeat applied after the loop had seen the timer running
C10_Witness ==
    /\ impl = "tools_client"
    /\ last.op = "heartbeat"
    /\ last.ok
    /\ last.instr = AUTH_STATUS_NORMAL
    /\ grace.in_grace
    /\ grace.remaining \in 1..(OFFLINE_GRACE_PERIOD - 1)
    /\ offline_start_time = -1

\* the step l records is a tools/client heartbeat that failed
HeartbeatFailureC(l) ==
    impl = "tools_client" /\ l.op = "heartbeat" /\ ~l.ok

\* C11: a failed heartbeat leaves the status cache and the persisted status
\* as they were, starts the offline timer at the current time when it was not
\* running, and leaves the recorded start time alone when it was.
C11_FailureStartsTimerOnce ==
    [][HeartbeatFailureC(last') =>
          /\ auth_cache' = auth_cache
          /\ config_auth_cache' = config_auth_cache
          /\ get_auth_state(auth_cache', config_auth_cache', now')
               = get_auth_state(auth_cache, config_auth_cache, now)
          /\ offline_start_time' = IF offline_start_time = -1 THEN now
                                   ELSE offline_start_time]_vars

\* a failed heartbeat, authorization valid, found the timer started at an
\* earlier time by an earlier failure the loop had already checked
C11_Witness ==
    /\ HeartbeatFailureC(last)
    /\ get_auth_state(auth_cache, config_auth_cache, now) = STATE_VALID
    /\ grace.in_grace
    /\ grace.remaining \in 1..(OFFLINE_GRACE_PERIOD - 1)
    /\ offline_start_time # -1
    /\ offline_start_time < now

\* C12: a heartbeat that reached the server and was answered with a
\* well-formed rejection (a JSON body whose code is 403) does not start the
\* offline timer.
C12_RejectionDoesNotStartTimer ==
    [][(HeartbeatFailureC(last') /\ last'.code = 403) =>
          ~(offline_start_time = -1 /\ offline_start_time' # -1)]_vars

\* the time the status held by the status cache was obtained: every write of
\* the cache is paired with a write of config["auth_cache"] that records the
\* time, and a restored cache holds what config["auth_cache"] holds
captured_at == config_auth_cache.update_time

\* C13: whenever get_auth_state has just been evaluated (startup check,
\* heartbeat loop) and reports VALID, which only the status cache can make it
\* do, the cached status was obtained less than AUTH_CACHE_TTL ago.
C13_CacheTrustedWithinTtl ==
    (/\ impl = "tools_client"
     /\ last.op \in {"startup_check", "grace_ok", "grace_exceeded"}
     /\ get_auth_state(auth_cache, config_auth_cache, now) = STATE_VALID)
        => now - captured_at < AUTH_CACHE_TTL

\* C14: an expired/revoked instruction of the server outlives the process.
\* traffic_client: once a heartbeat response instructed expired or revoked,
\* the status is not AUTHORIZED again before a login succeeds, restarts
\* included.  tools/client: when the step that applies a heartbeat reporting
\* expired ends, config["auth_cache"] holds expired.
C14_DenialPersisted ==
    /\ (impl = "traffic_client" /\ denied) => status # AUTHORIZED
    /\ (impl = "tools_client" /\ last.op = "heartbeat" /\ last.ok
          /\ last.instr = AUTH_STATUS_EXPIRED)
         => config_auth_cache = ConfigCache(AUTH_STATUS_EXPIRED, now)

\* data/auth.dat is not a complete, undamaged blob
Unreadable(file) ==
    \/ ~file.exists
    \/ file.written < BlobBlocks
    \/ file.damage # "none"

\* C15: loading a missing, empty, truncated or byte-flipped data/auth.dat
\* returns None: after send_heartbeat looked for a saved record in such a
\* file, it found none and returned without a request.
C15_LoadTolerant ==
    Unreadable(auth_file) =>
        /\ LoadAuthInfo(auth_file) = NoAuthInfo
        /\ last.op # "heartbeat_load"

C17_RecordNeverPartial ==
    impl = "tools_client" =>
        ((config.client_id \/ config.auth_key)
            => (config.machine_code /\ config.expire_time))

\* C18: an integrity recheck that found the status AUTHORIZED leaves it
\* AUTHORIZED only if the current device code equals the code in
\* device_code.dat, equals the bind_device_code of the saved record, and is
\* the code the issuer embedded in the saved secret.
C18_ThreeComparisons ==
    (impl = "traffic_client" /\ last.op = "integrity_pass") =>
        LET current_code == generate_device_code(hw)
            auth_info == LoadAuthInfo(auth_file)
        IN  /\ status = AUTHORIZED
            /\ device_code_file = current_code
            /\ auth_info.present
            /\ auth_info.bind_device_code = current_code
            /\ verify_license(auth_info.signature, current_code)

\* C19: with a registration persisted, a recheck that runs on hardware other
\* than the registered one does not pass (it sets EXCEPTION), and once a
\* recheck has set EXCEPTION is_authorized() stays false until a login
\* succeeds.
C19_MismatchAfterHardwareChange ==
    impl = "traffic_client" =>
        /\ (last.op = "integrity_pass" /\ LoadAuthInfo(auth_file).present)
              => generate_device_code(hw) = LoadAuthInfo(auth_file).bind_device_code
        /\ mismatch => ~is_authorized(status)

\* the first half of C19 alone
C19_RecheckCatchesChange ==
    (impl = "traffic_client" /\ last.op = "integrity_pass"
       /\ LoadAuthInfo(auth_file).present)
      => generate_device_code(hw) = LoadAuthInfo(auth_file).bind_device_code

LoginFailed(l) == l.op = "login" /\ ~(l.ok /\ l.code = 200)

\* C21: a login() whose request fails or whose response code is not 200
\* returns False and leaves the status UNAUTHORIZED, data/auth.dat and
\* client_id as they were; sending the request leaves auth.dat and client_id
\* as they were too.
C21_FailedLogin ==
    [][/\ LoginFailed(last') =>
            /\ ~last'.ret
            /\ status' = UNAUTHORIZED
            /\ auth_file' = auth_file
            /\ client_id' = client_id
       /\ last'.op = "login_send" =>
            /\ auth_file' = auth_file
            /\ client_id' = client_id
            /\ status' = status]_vars

\* a failed login of an agent that was AUTHORIZED with a saved record
C21_Witness ==
    /\ LoginFailed(last)
    /\ last.prior = AUTHORIZED
    /\ status = UNAUTHORIZED
    /\ LoadAuthInfo(auth_file).present
    /\ client_id \in ClientIds

\* C22: the retry job never changes the status (nor client_id, nor the
\* files): it recovers neither REVOKED nor EXCEPTION and does nothing in
\* AUTHORIZED and UNAUTHORIZED.
C22_RetryNeverRecovers ==
    [][last'.op = "retry" =>
          /\ status' = status
          /\ client_id' = client_id
          /\ auth_file' = auth_file
          /\ device_code_file' = device_code_file]_vars

\* the retry job ran with the status EXCEPTION after a mismatch
C22_Witness ==
    /\ last.op = "retry"
    /\ last.prior = EXCEPTION
    /\ status = EXCEPTION
    /\ mismatch

\* C23: no step reads or writes the status cache, the offline timer or the
\* in-memory record (status, client id, auth key) outside the lock.
C23_AccessUnderLock ==
    /\ impl = "traffic_client" => ~UnlockedAccessT(last.op)
    /\ impl = "tools_client" => ~UnlockedAccessC(last.op)

\* the steps that end with a request in flight
RequestInFlight ==
    \/ impl = "traffic_client"
         /\ \/ main_pc = "login_wait" /\ last.op = "login_send"
            \/ sched_pc = "hb_wait" /\ last.op \in {"heartbeat_send", "heartbeat_load"}
            \/ sched_pc = "report_wait" /\ last.op = "integrity_mismatch"
    \/ impl = "tools_client"
         /\ \/ app_pc \in {"register_wait", "update_wait"}
                 /\ last.op = "register_or_update_send"
            \/ hb_pc = "wait" /\ last.op = "heartbeat_send"

ShutdownBegun ==
    \/ impl = "traffic_client" /\ main_pc = "stopping"
    \/ impl = "tools_client" /\ (stop_event \/ shutdown_event)

\* a step that starts a new job of a background worker: a pass of the
\* heartbeat loop that goes into _send_heartbeat, or a job run by run_loop
JobStarted ==
    \/ HeartbeatLoopSend /\ hb_pc' = "wait"
    \/ CheckHardwareIntegrity
    \/ HeartbeatSend
    \/ RetryAuthIfNeeded

\* C25: once shutdown has begun, no background worker starts a new
\* heartbeat, integrity-recheck or retry job (a job that was running may end)
C25_NoJobAfterShutdown == [][ShutdownBegun => ~JobStarted]_vars

\* the tools/client half of C25: after the stop event or the shutdown event
\* is set, the heartbeat loop sends no new heartbeat
C25_HeartbeatLoopStops ==
    [][(impl = "tools_client" /\ ShutdownBegun) => ~JobStarted]_vars

C28_SchedulerKeepsRunning ==
    /\ impl = "traffic_client" => sched_pc # "dead"
    /\ impl = "tools_client" => hb_pc # "dead"

\* C29: on an unchanged host the fingerprint (device code, machine code)
\* computed again equals the one computed before, also when fields could not
\* be read and the fallbacks are used
C29_Deterministic ==
    (call.fn \in {"generate_device_code", "get_machine_code"} /\ call.before # -1)
        => call.value = call.before

\* what holds of C29: the device code is the same again when a physical MAC
\* is listed or uuid.getnode() can read a hardware address, and the machine
\* code when the collector reads one or the machine id file can be written
C29_DeterministicWhenReadable ==
    /\ (/\ call.fn = "generate_device_code"
        /\ call.before # -1
        /\ (host.mac_list # UNKNOWN \/ host.hw_node # UNKNOWN))
           => call.value = call.before
    /\ (/\ call.fn = "get_machine_code"
        /\ call.before # -1
        /\ (host.collector_code # UNKNOWN \/ host.id_writable))
           => call.value = call.before

\* C30: is_authorized() returns true exactly when the status is AUTHORIZED
\* (false in UNAUTHORIZED, EXPIRED, REVOKED and EXCEPTION), and answering
\* starts no request and waits for none: the threads stay where they are,
\* also while a request is in flight
C30_GateIsStatusOnly ==
    [][IsAuthorizedCall =>
          /\ last'.ret = (status = AUTHORIZED)
          /\ status' = status
          /\ sched_pc' = sched_pc
          /\ main_pc' = main_pc]_vars

\* the gate was asked while the heartbeat request was in flight, the status
\* being EXCEPTION after a hardware mismatch, and it answered no
C30_Witness ==
    /\ last.op = "is_authorized"
    /\ sched_pc = "hb_wait"
    /\ status = EXCEPTION
    /\ ~last.ret


-----------------------------------------------------------------------------
\* the step sends an exception report: the scheduler thread enters the wait
\* for the answer of /api/client/authorize/exception
ReportSent == sched_pc # "report_wait" /\ sched_pc' = "report_wait"

\* the step takes the status into EXCEPTION (HARDWARE_MISMATCH)
EntersMismatch == status # EXCEPTION /\ status' = EXCEPTION

\* C31: every transition into HARDWARE_MISMATCH is reported.  A step sends an
\* exception report exactly when it takes the status into EXCEPTION (the
\* status is EXCEPTION when the request goes out); the report carries the manager's client id, the reason of the comparison that
\* differed and the fingerprint collected now; when the report returns,
\* failed or not, the status is what it was; a recheck in EXCEPTION sends
\* nothing.
C31_MismatchReported ==
    [][impl = "traffic_client" =>
         /\ EntersMismatch <=> ReportSent
         /\ ReportSent =>
               /\ last'.op = "integrity_mismatch"
               /\ last'.report.client_id = client_id'
               /\ last'.report.reason \in {"hardware_mismatch_local",
                                           "hardware_mismatch_auth"}
               /\ last'.report.device_code = generate_device_code(hw')
               /\ last'.report.device_code # 0
         /\ ~ReportSent => last'.report = NoReport
         /\ last'.op = "report_done" => status' = status
         /\ (status = EXCEPTION /\ last'.op \in {"integrity_skip",
                   "integrity_mismatch", "integrity_pass"}) =>
                (last'.op = "integrity_skip" /\ ~ReportSent)]_vars

\* a report that failed has returned and the status is still EXCEPTION, and
\* the recheck that follows in EXCEPTION has been skipped
C31_Witness ==
    /\ impl = "traffic_client"
    /\ status = EXCEPTION
    /\ last.op = "report_done"
    /\ ~last.ok

C31_RecheckSkipped ==
    /\ impl = "traffic_client"
    /\ status = EXCEPTION
    /\ mismatch
    /\ last.op = "integrity_skip"


-----------------------------------------------------------------------------
\* the attempts made so far all but the last failed
FailuresBeforeLast ==
    \A i \in 1..(Len(retry.outcomes) - 1) : ~retry.outcomes[i].success

\* what the call returned is what its last attempt gave
ReturnsLastAttempt ==
    LET n == Len(retry.outcomes) IN
    /\ n >= 1
    /\ retry.ret.success = retry.outcomes[n].success
    /\ retry.ret.success => retry.ret.resp_data = retry.outcomes[n].resp_data
    /\ ~retry.ret.success =>
          /\ n = MAX_RETRY
          /\ retry.ret.resp_data = None
          /\ retry.ret.error = retry.outcomes[n].error

\* C32 (safety part): at most MAX_RETRY attempts, none after a successful
\* one; the call returns the response of the first successful attempt, else
\* failure with the error of the last of MAX_RETRY attempts; it sleeps only
\* between two attempts, so never after the final one.
C32_RetryBounded ==
    /\ Len(retry.outcomes) <= MAX_RETRY
    /\ FailuresBeforeLast
    /\ retry.pc = "returned" => ReturnsLastAttempt
    /\ retry.pc = "sleep" => Len(retry.outcomes) < MAX_RETRY
    /\ retry.pc = "returned" => retry.sleeps = Len(retry.outcomes) - 1
    /\ retry.sleeps < MAX_RETRY

\* C32: a request with retry makes at most MAX_RETRY attempts, stops at the
\* first successful attempt and returns its response, otherwise returns
\* failure with the error of the last attempt; it never sleeps after the
\* final attempt, and a call in progress always returns.
C32_RetryTerminates ==
    /\ []C32_RetryBounded
    /\ (retry.pc \in {"request", "sleep"}) ~> (retry.pc = "returned")

\* every attempt failed, the last with another error than the one before
C32_Witness ==
    /\ impl = "network_client"
    /\ retry.pc = "returned"
    /\ ~retry.ret.success
    /\ Len(retry.outcomes) = MAX_RETRY
    /\ retry.outcomes[MAX_RETRY].error # retry.outcomes[MAX_RETRY - 1].error
    /\ retry.sleeps = MAX_RETRY - 1

\* the second attempt succeeded
C32_StopsAtSuccess ==
    /\ impl = "network_client"
    /\ retry.pc = "returned"
    /\ retry.ret.success
    /\ Len(retry.outcomes) = 2

-----------------------------------------------------------------------------
\* the heartbeat just processed reported the authorization as expired
ExpiredHeartbeat ==
    /\ impl = "tools_client"
    /\ last.op = "heartbeat"
    /\ last.ok
    /\ last.instr = AUTH_STATUS_EXPIRED

\* the expired status is in the status cache and in the configuration
ExpiredStored ==
    /\ CachedValue_get(auth_cache, now) = AUTH_STATUS_EXPIRED
    /\ config_auth_cache = ConfigCache(AUTH_STATUS_EXPIRED, now)

\* this process has stored the expired status and is still running
ExpiredInProcess ==
    /\ impl = "tools_client"
    /\ app_pc = "main_loop"
    /\ config_auth_cache.present
    /\ config_auth_cache.status = AUTH_STATUS_EXPIRED

\* C33: expiry leads to graceful exit.  When a heartbeat response reports
\* expired, the expired status is cached and persisted and shutdown is
\* requested at once; from then on the heartbeat thread of this process
\* sends no heartbeat (it is before its check of the status, or done); and
\* the main loop ends, run() returning 0, unless the process is killed first.
C33_ExpiryLeadsToExit ==
    /\ [](ExpiredHeartbeat => ExpiredStored /\ shutdown_event)
    /\ [](ExpiredInProcess =>
            shutdown_event /\ hb_pc \in {"check", "done"})
    /\ [][ExpiredInProcess => last'.op # "heartbeat_send"]_vars
    /\ ExpiredHeartbeat ~> (app_pc = "exit0" \/ last.op = "restart")

\* after an expired heartbeat the heartbeat thread has ended and run() has
\* returned 0
C33_Witness ==
    /\ impl = "tools_client"
    /\ app_pc = "exit0"
    /\ hb_pc = "done"
    /\ shutdown_event
    /\ config_auth_cache.status = AUTH_STATUS_EXPIRED
    /\ last.op = "main_loop_exit"

-----------------------------------------------------------------------------
\* C34: the stored device code changes only through a successful
\* registration.  With no login in flight and the record of the last
\* successful login complete on disk (or no login ever successful), the
\* content of device_code.dat is the fingerprint bound by that login (or the
\* file is still empty).
C34_DeviceCodeOnlyByRegistration ==
    (/\ impl = "traffic_client"
     /\ main_pc # "login_wait"
     /\ auth_file.exists => auth_file.written = BlobBlocks)
    => device_code_file = LoadAuthInfo(auth_file).bind_device_code

\* the part of C34 the code keeps: a successful login stores the fingerprint
\* it sent in both files
C34_SuccessfulLoginBinds ==
    (impl = "traffic_client" /\ last.op = "login" /\ last.ret)
    => /\ device_code_file = last.sent
       /\ LoadAuthInfo(auth_file).bind_device_code = last.sent
-----------------------------------------------------------------------------
\* every construction that has returned from __new__ holds the one instance
C35_SameInstance ==
    \A t \in Threads :
        singleton.self[t] # 0 =>
            singleton.self[t] = singleton.instance

\* C35: the singleton is initialized at most once even when constructed from
\* several threads: every construction returns the same instance, the body
\* of __init__ runs at most once, and no run of it assigns status and
\* client_id after a construction has completed.
C35_InitializedOnce ==
    impl = "singleton" =>
        /\ C35_SameInstance
        /\ singleton.init_runs <= 1
        /\ ~singleton.reset

\* the part of C35 the code keeps: a construction that begins after one has
\* completed does not run the body of __init__
C35_LaterConstructionSkips ==
    [][\A t \in Threads :
          (singleton.initialized
             /\ singleton.pc[t] \in {"idle", "done", "new_check", "init_check"})
          => singleton'.pc[t] \notin {"init_body", "new_lock"}]_vars

\* C36: at most one scheduler thread and at most one registered heartbeat
\* job at any time, and no heartbeat job is begun after stop() has returned
\* (until start() is called again).
C36_OneSchedulerOneJob ==
    impl = "engine" =>
        /\ Cardinality(SchedulerThreads) <= 1
        /\ engine.jobs <= 1
        /\ ~engine.late_job

\* the part of C36 the code keeps: start() while running changes nothing
C36_StartWhileRunningIsNoop ==
    [][(impl = "engine" /\ engine.running
          /\ engine'.op \in {"start", "start_noop"}
          /\ engine' # engine)
         => engine' = [engine EXCEPT !.op = "start_noop"]]_vars

-----------------------------------------------------------------------------
\* the process of tools/client is alive (its AuthManager exists)
ProcessAlive == impl = "tools_client" /\ app_pc # "killed"

\* the status cache holds a status that has not timed out
CacheValid == CachedValue_get(auth_cache, now) # None

\* C37: whenever the in-memory status cache is valid, its status equals the
\* status in the configuration's auth_cache; and within a process no step
\* changes one of the two without the other: a step that changes either
\* leaves both written at the current time with one status.
C37_CacheMatchesConfig ==
    /\ [](ProcessAlive /\ CacheValid =>
             /\ config_auth_cache.present
             /\ config_auth_cache.status = auth_cache.value)
    /\ [][(ProcessAlive /\ app_pc' # "killed" /\ last'.op # "restart") =>
             ((auth_cache' # auth_cache \/ config_auth_cache' # config_auth_cache)
              => /\ config_auth_cache'.present
                 /\ config_auth_cache'.update_time = now'
                 /\ auth_cache' = CachedValue_set(config_auth_cache'.status,
                                                  now'))]_vars

\* a heartbeat has replaced a persisted status by normal in both places
C37_Witness ==
    /\ ProcessAlive
    /\ last.op = "heartbeat"
    /\ last.ok
    /\ CacheValid
    /\ auth_cache.value = AUTH_STATUS_NORMAL
    /\ config_auth_cache = ConfigCache(AUTH_STATUS_NORMAL, now)
    /\ now > 0

-----------------------------------------------------------------------------
\* the update request of this process's startup has just failed
StartupUpdateFailed ==
    /\ impl = "tools_client"
    /\ last.op = "update"
    /\ ~last.ok

\* C38: the offline timer starts empty in every process.  Until the startup
\* request of a process has been answered its timer is empty, whatever the
\* timer of the process before it was; when the startup update request
\* fails, the start goes on (main loop and heartbeat thread) and the offline
\* window begins at that moment, with the whole grace period ahead.
C38_FreshOfflineWindow ==
    /\ []((impl = "tools_client"
            /\ app_pc \in {"startup", "register", "register_wait", "update_wait"})
           => offline_start_time = -1)
    /\ [](StartupUpdateFailed =>
            /\ app_pc = "main_loop"
            /\ hb_pc = "loop"
            /\ offline_start_time = now
            /\ check_offline_grace(offline_start_time, auth_cache,
                                   config_auth_cache, now)
                 = [in_grace |-> TRUE, remaining |-> OFFLINE_GRACE_PERIOD])
    /\ [][last'.op = "restart" => offline_start_time' = -1]_vars

\* a process whose timer was running is followed by a process whose startup
\* update fails later than one grace period after the first clock tick
C38_Witness ==
    /\ StartupUpdateFailed
    /\ offline_start_time = now
    /\ now > OFFLINE_GRACE_PERIOD
=============================================================================
